---- MODULE Spec2Model ----
(***************************************************************************)
(* A model of the OpenAI provider adapter (src/openai.go) and of the       *)
(* document store OpenAIStore:                                             *)
(*   - the streaming decoder parseSSEResponse, one step per scanned line;  *)
(*   - the retry loop openaiGenerateWithRetry around openaiREST;           *)
(*   - the streaming call openaiStream and the message translator;         *)
(*   - the pure helpers isRetryableError and calculateBackoffDelay;        *)
(*   - the operations of OpenAIStore, one step per remote call and per     *)
(*     access to its map.                                                  *)
(* Each part has its own specification (SpecDecoder, SpecRetry,            *)
(* SpecRetryFair, SpecPure, SpecStream, SpecStreamCancel, SpecExecutor,    *)
(* SpecTranslate, SpecCalls, SpecConcurrent, SpecStore, SpecRemote,        *)
(* SpecOpens); the variables of the other parts stay at their initial      *)
(* values.                                                                 *)
(***************************************************************************)
EXTENDS Integers, Sequences, FiniteSets, TLC

VARIABLES
    dec,        \* parseSSEResponse: locals, callback log, position, return value
    hist,       \* parseSSEResponse: the lines the scanner has delivered so far
    retry,      \* openaiGenerateWithRetry: loop state, context, return value
    pure,       \* inputs and output of the pure helpers
    stream,     \* openaiStream: position, requests made, return value
    store       \* OpenAIStore: the map, the remote files, the operations under way

vars == <<dec, hist, retry, pure, stream, store>>

(***************************************************************************)
(* Bounds of the model.                                                    *)
(***************************************************************************)
MaxLines == 4
MaxMessages == 2
MaxReadsBeforeCancel == 3
MaxConcurrentLines == 1
MaxUploads == 2
MaxOps == 3
MaxOpeners == 2
MaxOpens == 3

(***************************************************************************)
(* Errors.  An error value is a record; ErrorText is its Error() string,   *)
(* a sequence of characters, so that strings.Contains is a search for a    *)
(* contiguous run of characters.                                           *)
(***************************************************************************)

\* "status: "
TxtStatus ==
    <<"s", "t", "a", "t", "u", "s", ":", " ">>

\* ", code: "
TxtCode ==
    <<",", " ", "c", "o", "d", "e", ":", " ">>

\* "status: 502"
TxtStatus502 ==
    <<"s", "t", "a", "t", "u", "s", ":", " ", "5", "0", "2">>

\* "status: 503"
TxtStatus503 ==
    <<"s", "t", "a", "t", "u", "s", ":", " ", "5", "0", "3">>

\* "status: 504"
TxtStatus504 ==
    <<"s", "t", "a", "t", "u", "s", ":", " ", "5", "0", "4">>

\* "status: 429"
TxtStatus429 ==
    <<"s", "t", "a", "t", "u", "s", ":", " ", "4", "2", "9">>

\* "connection refused"
TxtConnectionRefused ==
    <<"c", "o", "n", "n", "e", "c", "t", "i", "o", "n", " ", "r", "e", "f", "u", "s", "e", "d">>

\* "timeout"
TxtTimeout ==
    <<"t", "i", "m", "e", "o", "u", "t">>

\* "network"
TxtNetwork ==
    <<"n", "e", "t", "w", "o", "r", "k">>

\* "temporary"
TxtTemporary ==
    <<"t", "e", "m", "p", "o", "r", "a", "r", "y">>

\* "failed to generate (non-retryable): "
TxtNonRetryable ==
    <<"f", "a", "i", "l", "e", "d", " ", "t", "o", " ", "g", "e", "n", "e", "r", "a", "t", "e", " ", "(", "n", "o", "n", "-", "r", "e", "t", "r", "y", "a", "b", "l", "e", ")", ":", " ">>

\* "context cancelled during retry: "
TxtCancelledDuringRetry ==
    <<"c", "o", "n", "t", "e", "x", "t", " ", "c", "a", "n", "c", "e", "l", "l", "e", "d", " ", "d", "u", "r", "i", "n", "g", " ", "r", "e", "t", "r", "y", ":", " ">>

\* "failed to generate after "
TxtAfterAttempts ==
    <<"f", "a", "i", "l", "e", "d", " ", "t", "o", " ", "g", "e", "n", "e", "r", "a", "t", "e", " ", "a", "f", "t", "e", "r", " ">>

\* " attempts. Last error: "
TxtLastError ==
    <<" ", "a", "t", "t", "e", "m", "p", "t", "s", ".", " ", "L", "a", "s", "t", " ", "e", "r", "r", "o", "r", ":", " ">>

\* "failed to execute request: "
TxtExecuteRequest ==
    <<"f", "a", "i", "l", "e", "d", " ", "t", "o", " ", "e", "x", "e", "c", "u", "t", "e", " ", "r", "e", "q", "u", "e", "s", "t", ":", " ">>

\* "failed to decode response body: "
TxtDecodeBody ==
    <<"f", "a", "i", "l", "e", "d", " ", "t", "o", " ", "d", "e", "c", "o", "d", "e", " ", "r", "e", "s", "p", "o", "n", "s", "e", " ", "b", "o", "d", "y", ":", " ">>

\* "no choices in response"
TxtNoChoices ==
    <<"n", "o", " ", "c", "h", "o", "i", "c", "e", "s", " ", "i", "n", " ", "r", "e", "s", "p", "o", "n", "s", "e">>

\* "context canceled"
TxtContextCanceled ==
    <<"c", "o", "n", "t", "e", "x", "t", " ", "c", "a", "n", "c", "e", "l", "e", "d">>

\* "context deadline exceeded"
TxtDeadlineExceeded ==
    <<"c", "o", "n", "t", "e", "x", "t", " ", "d", "e", "a", "d", "l", "i", "n", "e", " ", "e", "x", "c", "e", "e", "d", "e", "d">>

\* "dial tcp: connect: connection refused"
TxtDialRefused ==
    <<"d", "i", "a", "l", " ", "t", "c", "p", ":", " ", "c", "o", "n", "n", "e", "c", "t", ":", " ", "c", "o", "n", "n", "e", "c", "t", "i", "o", "n", " ", "r", "e", "f", "u", "s", "e", "d">>

\* "dial tcp: i/o timeout"
TxtIOTimeout ==
    <<"d", "i", "a", "l", " ", "t", "c", "p", ":", " ", "i", "/", "o", " ", "t", "i", "m", "e", "o", "u", "t">>

\* "EOF"
TxtEOF ==
    <<"E", "O", "F">>

\* "connect: network is unreachable"
TxtNetUnreachable ==
    <<"c", "o", "n", "n", "e", "c", "t", ":", " ", "n", "e", "t", "w", "o", "r", "k", " ", "i", "s", " ", "u", "n", "r", "e", "a", "c", "h", "a", "b", "l", "e">>

\* "temporary failure in name resolution"
TxtTemporaryFailure ==
    <<"t", "e", "m", "p", "o", "r", "a", "r", "y", " ", "f", "a", "i", "l", "u", "r", "e", " ", "i", "n", " ", "n", "a", "m", "e", " ", "r", "e", "s", "o", "l", "u", "t", "i", "o", "n">>

\* "invalid character '<'"
TxtInvalidChar ==
    <<"i", "n", "v", "a", "l", "i", "d", " ", "c", "h", "a", "r", "a", "c", "t", "e", "r", " ", "'", "<", "'">>

\* "Bad Request"
TxtBadRequest ==
    <<"B", "a", "d", " ", "R", "e", "q", "u", "e", "s", "t">>

\* "Unauthorized"
TxtUnauthorized ==
    <<"U", "n", "a", "u", "t", "h", "o", "r", "i", "z", "e", "d">>

\* "Not Found"
TxtNotFound ==
    <<"N", "o", "t", " ", "F", "o", "u", "n", "d">>

\* "Too Many Requests"
TxtTooManyRequests ==
    <<"T", "o", "o", " ", "M", "a", "n", "y", " ", "R", "e", "q", "u", "e", "s", "t", "s">>

\* "Internal Server Error"
TxtInternalServerError ==
    <<"I", "n", "t", "e", "r", "n", "a", "l", " ", "S", "e", "r", "v", "e", "r", " ", "E", "r", "r", "o", "r">>

\* "Bad Gateway"
TxtBadGateway ==
    <<"B", "a", "d", " ", "G", "a", "t", "e", "w", "a", "y">>

\* "Service Unavailable"
TxtServiceUnavailable ==
    <<"S", "e", "r", "v", "i", "c", "e", " ", "U", "n", "a", "v", "a", "i", "l", "a", "b", "l", "e">>

\* "Gateway Timeout"
TxtGatewayTimeout ==
    <<"G", "a", "t", "e", "w", "a", "y", " ", "T", "i", "m", "e", "o", "u", "t">>

\* "upstream timeout"
TxtUpstreamTimeout ==
    <<"u", "p", "s", "t", "r", "e", "a", "m", " ", "t", "i", "m", "e", "o", "u", "t">>

\* "error reading SSE stream: "
TxtReadingStream ==
    <<"e", "r", "r", "o", "r", " ", "r", "e", "a", "d", "i", "n", "g", " ", "S", "S", "E", " ", "s", "t", "r", "e", "a", "m", ":", " ">>

\* "unexpected EOF"
TxtUnexpectedEOF ==
    <<"u", "n", "e", "x", "p", "e", "c", "t", "e", "d", " ", "E", "O", "F">>

\* s + t on strings.
Cat(s, t) == s \o t

\* strings.Contains(s, substr).
Contains(s, substr) ==
    \E i \in 0..(Len(s) - Len(substr)) :
        SubSeq(s, i + 1, i + Len(substr)) = substr

Digits == <<"0", "1", "2", "3", "4", "5", "6", "7", "8", "9">>

\* The decimal rendering of a non-negative integer (fmt's %d).
RECURSIVE Itoa(_)
Itoa(n) ==
    IF n < 10 THEN <<Digits[n + 1]>>
    ELSE Itoa(n \div 10) \o <<Digits[(n % 10) + 1]>>

\* The nil error.
NilError == [kind |-> "nil"]

\* errors.New(text), and the errors of net/http and encoding/json.
TextError(text) == [kind |-> "text", text |-> text]

\* fmt.Errorf(prefix + "%w", inner).
WrapError(prefix, inner) == [kind |-> "wrap", prefix |-> prefix, inner |-> inner]

\* resp.Status: the status code and the reason phrase of the status line.
StatusLine(code, reason) == Cat(Itoa(code), Cat(<<" ">>, reason))

\* &ai.StatusError{StatusCode, Status, ErrorMessage}.
StatusError(code, status, body) ==
    [kind |-> "status", StatusCode |-> code, Status |-> status, ErrorMessage |-> body]

\* err.Error().  The text of an ai.StatusError has the shape the fixtures of
\* TestIsRetryableError give it: "status: 502 Bad Gateway, code: 502".
RECURSIVE ErrorText(_)
ErrorText(err) ==
    CASE err.kind = "text"   -> err.text
      [] err.kind = "wrap"   -> Cat(err.prefix, ErrorText(err.inner))
      [] err.kind = "status" ->
            Cat(TxtStatus, Cat(err.Status, Cat(TxtCode, Itoa(err.StatusCode))))

\* An error of the caller's, returned by its chunkFunction.
CallbackError(n) == [kind |-> "callback", id |-> n]

(***************************************************************************)
(* Streaming decoder: data.                                                *)
(***************************************************************************)

\* One tool-call delta of a chunk (OpenAIToolCall as it appears in a delta).
ToolDelta(index, id, type, name, arguments) ==
    [Index |-> index, ID |-> id, Type |-> type, Name |-> name, Arguments |-> arguments]

\* One element of OpenAIChatStreamResponse.Choices.
Choice(role, content, toolCalls, finishReason) ==
    [Role |-> role, Content |-> content, ToolCalls |-> toolCalls,
     FinishReason |-> finishReason]

\* A decoded OpenAIChatStreamResponse.
Chunk(id, created, model, choices) ==
    [ID |-> id, Created |-> created, Model |-> model, Choices |-> choices]

\* The chunks the modelled vendor can send.
ChunkA     == Chunk("r1", 1, "m1", <<Choice("assistant", "a", <<>>, "")>>)
ChunkB     == Chunk("r2", 2, "m2", <<Choice("", "b", <<>>, "")>>)
ChunkTool0 == Chunk("", 3, "m3",
                    <<Choice("user", "", <<ToolDelta(0, "c0", "function", "f", "x")>>, "")>>)
ChunkTool01 == Chunk("r1", 1, "m1",
                    <<Choice("", "", <<ToolDelta(0, "cX", "", "", "y"),
                                       ToolDelta(1, "c1", "function", "g", "z")>>, "")>>)
ChunkTool2 == Chunk("r1", 1, "m1",
                    <<Choice("", "", <<ToolDelta(2, "c2", "function", "h", "")>>, "")>>)
ChunkFinish == Chunk("r1", 1, "m1", <<Choice("", "c", <<>>, "stop")>>)
ChunkUsage == Chunk("r3", 4, "m1", <<>>)
ChunkThink == Chunk("r1", 1, "m1", <<Choice("", "<think>r</think>", <<>>, "")>>)

Chunks ==
    {ChunkA, ChunkB, ChunkTool0, ChunkTool01, ChunkTool2, ChunkFinish, ChunkUsage,
     ChunkThink}

\* What one call of scanner.Scan() can deliver, classified as the loop body
\* classifies it: a blank line, the sentinel, a line without the data prefix,
\* a data line whose payload is not JSON, a data line carrying a chunk; or the
\* end of the body, clean ("eof") or with scanner.Err() set ("ioerr").
BlankLine     == [kind |-> "blank"]
DoneLine      == [kind |-> "sentinel"]
CommentLine   == [kind |-> "nodata"]
MalformedLine == [kind |-> "malformed"]
ChunkLine(c)  == [kind |-> "chunk", chunk |-> c]
EndOfBody     == [kind |-> "eof"]
ReadFailure   == [kind |-> "ioerr"]

\* The lines scanner.Text() can hold, and the ways scanner.Scan() ends.
Lines == {BlankLine, DoneLine, CommentLine, MalformedLine}
         \cup {ChunkLine(c) : c \in Chunks}
Ends == {EndOfBody, ReadFailure}

\* What chunkFunction can return: nil or an error of the caller's.
CallbackReturns == {NilError, CallbackError(1), CallbackError(2)}

\* The zero ai.AIMessage.
EmptyMessage ==
    [Role |-> "", Content |-> "", Think |-> "", ToolCalls |-> <<>>,
     Response |-> [ID |-> "", Object |-> "", Created |-> 0, Model |-> ""]]

\* The locals of parseSSEResponse when the loop starts.
InitAcc ==
    [accumulatedContent |-> "",
     toolCallsMap       |-> <<>>,
     responseID         |-> "",
     responseCreated    |-> 0,
     responseModel      |-> "",
     Role               |-> ""]

InitDec ==
    [acc    |-> InitAcc,
     cbLog  |-> <<>>,
     pc     |-> "scan",
     result |-> [msg |-> EmptyMessage, err |-> NilError]]

(***************************************************************************)
(* Streaming decoder: the loop body of parseSSEResponse.                   *)
(***************************************************************************)

\* Store response metadata from first chunk (guarded by responseID == "").
CaptureMetadata(acc, chunk) ==
    IF acc.responseID = ""
    THEN [acc EXCEPT !.responseID      = chunk.ID,
                     !.responseCreated = chunk.Created,
                     !.responseModel   = chunk.Model]
    ELSE acc

\* Mutant of AccumulateContent: the fragment replaces the accumulated text.
AccumulateContentOverwrite(acc, choice) ==
    IF choice.Content # ""
    THEN [acc EXCEPT !.accumulatedContent = choice.Content]
    ELSE acc

\* Accumulate content: accumulatedContent.WriteString(choice.Delta.Content).
AccumulateContent(acc, choice) ==
    IF choice.Content # ""
    THEN [acc EXCEPT !.accumulatedContent = @ \o choice.Content]
    ELSE acc

\* Mutant of AccumulateToolCall: the fragment replaces the slot's arguments.
AccumulateToolCallOverwrite(m, delta) ==
    LET index   == delta.Index
        created == IF index \in DOMAIN m
                   THEN m
                   ELSE m @@ (index :> [ID |-> delta.ID, Type |-> delta.Type,
                                        Name |-> delta.Name, Args |-> ""])
    IN  IF delta.Arguments # ""
        THEN [created EXCEPT ![index].Args = delta.Arguments]
        ELSE created

\* Mutant of AccumulateToolCall: a later delta that carries an id gives the
\* slot that id.
AccumulateToolCallRenames(m, delta) ==
    LET index   == delta.Index
        created == IF index \in DOMAIN m
                   THEN IF delta.ID # "" THEN [m EXCEPT ![index].ID = delta.ID] ELSE m
                   ELSE m @@ (index :> [ID |-> delta.ID, Type |-> delta.Type,
                                        Name |-> delta.Name, Args |-> ""])
    IN  IF delta.Arguments # ""
        THEN [created EXCEPT ![index].Args = @ \o delta.Arguments]
        ELSE created

\* One iteration of the loop over choice.Delta.ToolCalls: create the entry
\* of the slot when the map has none, then append the argument fragment.
AccumulateToolCall(m, delta) ==
    LET index   == delta.Index
        created == IF index \in DOMAIN m
                   THEN m
                   ELSE m @@ (index :> [ID |-> delta.ID, Type |-> delta.Type,
                                        Name |-> delta.Name, Args |-> ""])
    IN  IF delta.Arguments # ""
        THEN [created EXCEPT ![index].Args = @ \o delta.Arguments]
        ELSE created

\* The loop over choice.Delta.ToolCalls, in the order of the slice.
RECURSIVE AccumulateToolCalls(_, _)
AccumulateToolCalls(m, deltas) ==
    IF deltas = <<>>
    THEN m
    ELSE AccumulateToolCalls(AccumulateToolCall(m, Head(deltas)), Tail(deltas))

\* Mutant of SetRole: every role provided replaces the one held.
SetRoleLastSeen(acc, choice) ==
    IF choice.Role # ""
    THEN [acc EXCEPT !.Role = choice.Role]
    ELSE acc

\* Set role if provided (and none was set before).
SetRole(acc, choice) ==
    IF choice.Role # "" /\ acc.Role = ""
    THEN [acc EXCEPT !.Role = choice.Role]
    ELSE acc

\* Convert tool calls map to slice: for i := 0; i < len(toolCallsMap); i++,
\* appending toolCallsMap[i] when that key exists.
RECURSIVE ToolCallsFrom(_, _)
ToolCallsFrom(m, i) ==
    IF i >= Cardinality(DOMAIN m)
    THEN <<>>
    ELSE (IF i \in DOMAIN m THEN <<m[i]>> ELSE <<>>) \o ToolCallsFrom(m, i + 1)

ToolCallsSlice(m) == ToolCallsFrom(m, 0)

\* Mutant of PartialMessage: the tool calls are left out of the message.
PartialMessageNoToolCalls(acc) ==
    [Role      |-> acc.Role,
     Content   |-> acc.accumulatedContent,
     ToolCalls |-> <<>>]

\* Create partial message for chunk function.
PartialMessage(acc) ==
    [Role      |-> acc.Role,
     Content   |-> acc.accumulatedContent,
     ToolCalls |-> ToolCallsSlice(acc.toolCallsMap)]

\* The code after the loop when scanner.Err() is nil: the final message.
FinalMessage(acc) ==
    [Role      |-> acc.Role,
     Content   |-> acc.accumulatedContent,
     Think     |-> "",
     ToolCalls |-> ToolCallsSlice(acc.toolCallsMap),
     Response  |-> [ID      |-> acc.responseID,
                    Object  |-> "chat.completion",
                    Created |-> acc.responseCreated,
                    Model   |-> acc.responseModel]]

\* Leaving the loop by break or by the end of the body, scanner.Err() nil.
Finish(st) ==
    [st EXCEPT !.pc = "done",
               !.result = [msg |-> FinalMessage(st.acc), err |-> NilError]]

\* Mutant of FailRead: scanner.Err() is not looked at, a failed read ends
\* the stream like the end of the body.
FailReadAsEnd(st) == Finish(st)

\* Mutant of FailRead: the text accumulated so far is returned with the
\* read error.
FailReadPartial(st) ==
    [st EXCEPT !.pc = "done",
               !.result = [msg |-> FinalMessage(st.acc),
                            err |-> WrapError(TxtReadingStream,
                                              TextError(TxtUnexpectedEOF))]]

\* scanner.Err() is set: the wrapped read error and no message.
FailRead(st) ==
    [st EXCEPT !.pc = "done",
               !.result = [msg |-> EmptyMessage,
                            err |-> WrapError(TxtReadingStream,
                                              TextError(TxtUnexpectedEOF))]]

\* Mutant of SkipMalformed: the decode error ends the call.
SkipMalformedAbort(st) ==
    [st EXCEPT !.pc = "done",
               !.result = [msg |-> EmptyMessage,
                           err |-> WrapError(TxtReadingStream,
                                             TextError(TxtInvalidChar))]]

\* Mutant of SkipMalformed: the decode error throws the accumulation away.
SkipMalformedResets(st) == [st EXCEPT !.acc = InitAcc]

\* json.Unmarshal failed: the warning is logged and the loop continues.
SkipMalformed(st) == st

\* Mutant of AfterCallback: the callback's error is dropped.
AfterCallbackIgnoreError(st, choice, cbRet) ==
    IF choice.FinishReason # ""
    THEN Finish(st)
    ELSE st

\* Mutant of AfterCallback: a finish reason does not end the loop.
AfterCallbackNoBreak(st, choice, cbRet) ==
    IF cbRet # NilError
    THEN [st EXCEPT !.pc = "done",
                    !.result = [msg |-> EmptyMessage, err |-> cbRet]]
    ELSE st

\* What follows the call of chunkFunction: return its error, or break on a
\* finish reason, or go on with the next line.
AfterCallback(st, choice, cbRet) ==
    IF cbRet # NilError
    THEN [st EXCEPT !.pc = "done",
                    !.result = [msg |-> EmptyMessage, err |-> cbRet]]
    ELSE IF choice.FinishReason # ""
         THEN Finish(st)
         ELSE st

\* Mutant of ProcessChunk: the callback gets only the chunk's own fragment.
ProcessChunkFragmentOnly(st, chunk, cbRet) ==
    LET acc0 == CaptureMetadata(st.acc, chunk)
    IN  IF Len(chunk.Choices) > 0
        THEN LET choice == chunk.Choices[1]
                 acc1   == AccumulateContent(acc0, choice)
                 acc2   == [acc1 EXCEPT !.toolCallsMap =
                                AccumulateToolCalls(@, choice.ToolCalls)]
                 acc3   == SetRole(acc2, choice)
                 called == [st EXCEPT !.acc   = acc3,
                                      !.cbLog = Append(@, [PartialMessage(acc3) EXCEPT
                                                             !.Content = choice.Content])]
             IN  AfterCallback(called, choice, cbRet)
        ELSE [st EXCEPT !.acc = acc0]

\* Mutant of ProcessChunk: chunkFunction is called only for a chunk that
\* brought new text.
ProcessChunkCallsOnText(st, chunk, cbRet) ==
    LET acc0 == CaptureMetadata(st.acc, chunk)
    IN  IF Len(chunk.Choices) > 0
        THEN LET choice == chunk.Choices[1]
                 acc1   == AccumulateContent(acc0, choice)
                 acc2   == [acc1 EXCEPT !.toolCallsMap =
                                AccumulateToolCalls(@, choice.ToolCalls)]
                 acc3   == SetRole(acc2, choice)
                 called == [st EXCEPT !.acc   = acc3,
                                      !.cbLog = IF choice.Content # ""
                                                THEN Append(@, PartialMessage(acc3))
                                                ELSE @]
             IN  AfterCallback(called, choice, cbRet)
        ELSE [st EXCEPT !.acc = acc0]

\* Process the chunk: the body of `if len(chunk.Choices) > 0`, after the
\* metadata capture.
ProcessChunk(st, chunk, cbRet) ==
    LET acc0 == CaptureMetadata(st.acc, chunk)
    IN  IF Len(chunk.Choices) > 0
        THEN LET choice == chunk.Choices[1]
                 acc1   == AccumulateContent(acc0, choice)
                 acc2   == [acc1 EXCEPT !.toolCallsMap =
                                AccumulateToolCalls(@, choice.ToolCalls)]
                 acc3   == SetRole(acc2, choice)
                 called == [st EXCEPT !.acc   = acc3,
                                      !.cbLog = Append(@, PartialMessage(acc3))]
             IN  AfterCallback(called, choice, cbRet)
        ELSE [st EXCEPT !.acc = acc0]

\* Whether the loop body calls chunkFunction for this line.
InvokesCallback(line) ==
    line.kind = "chunk" /\ Len(line.chunk.Choices) > 0

\* Mutant of ProcessLine: a body that ends without the sentinel is reported
\* as a failed read.
ProcessLineNeedsSentinel(st, line, cbRet) ==
    CASE line.kind = "eof"       -> FailRead(st)
      [] line.kind = "ioerr"     -> FailRead(st)
      [] line.kind = "blank"     -> st
      [] line.kind = "sentinel"  -> Finish(st)
      [] line.kind = "nodata"    -> st
      [] line.kind = "malformed" -> SkipMalformed(st)
      [] line.kind = "chunk"     -> ProcessChunk(st, line.chunk, cbRet)

\* One call of scanner.Scan() and the loop body for what it delivered.
ProcessLine(st, line, cbRet) ==
    CASE line.kind = "eof"       -> Finish(st)
      [] line.kind = "ioerr"     -> FailRead(st)
      [] line.kind = "blank"     -> st
      [] line.kind = "sentinel"  -> Finish(st)
      [] line.kind = "nodata"    -> st
      [] line.kind = "malformed" -> SkipMalformed(st)
      [] line.kind = "chunk"     -> ProcessChunk(st, line.chunk, cbRet)

\* parseSSEResponse run over a whole recorded input, from the start.
RECURSIVE RunDecoder(_, _)
RunDecoder(st, h) ==
    IF h = <<>> \/ st.pc = "done"
    THEN st
    ELSE RunDecoder(ProcessLine(st, Head(h).line, Head(h).cb), Tail(h))

(***************************************************************************)
(* Streaming decoder: the state machine.                                   *)
(***************************************************************************)

\* scanner.Scan() delivers a line and the loop body runs on it; the
\* callback, when called, returns cbRet.
DecodeLine ==
    /\ dec.pc = "scan"
    /\ Len(hist) < MaxLines
    /\ \E line \in Lines :
         \E cbRet \in (IF InvokesCallback(line) THEN CallbackReturns ELSE {NilError}) :
            /\ dec'  = ProcessLine(dec, line, cbRet)
            /\ hist' = Append(hist, [line |-> line, cb |-> cbRet])
    /\ UNCHANGED <<retry, pure, stream, store>>

(***************************************************************************)
(* Retry configuration and the pure helpers.                               *)
(***************************************************************************)
maxRetries == 5
\* Durations are counted in milliseconds.
baseDelay == 1000
maxDelay == 30000
\* jitterFactor = 0.1, as the fraction 1 / jitterFactorDen.
jitterFactorDen == 10

\* rand.Float64() is drawn as rnd / RandDen with rnd in 0..RandDen-1.
RandDen == 4
\* The largest attempt number calculateBackoffDelay is applied to on its own.
MaxAttemptArg == 12

\* Mutant of isRetryableError: the check for status 504 is missing.
isRetryableErrorNo504(err) ==
    IF err = NilError
    THEN FALSE
    ELSE LET errStr == ErrorText(err)
         IN  IF \/ Contains(errStr, TxtStatus502)
                \/ Contains(errStr, TxtStatus503)
                \/ Contains(errStr, TxtStatus429)
             THEN TRUE
             ELSE IF \/ Contains(errStr, TxtConnectionRefused)
                     \/ Contains(errStr, TxtTimeout)
                     \/ Contains(errStr, TxtNetwork)
                     \/ Contains(errStr, TxtTemporary)
                  THEN TRUE
                  ELSE FALSE

\* isRetryableError checks if an error should trigger a retry.
isRetryableError(err) ==
    IF err = NilError
    THEN FALSE
    ELSE LET errStr == ErrorText(err)
         IN  IF \/ Contains(errStr, TxtStatus502)
                \/ Contains(errStr, TxtStatus503)
                \/ Contains(errStr, TxtStatus504)
                \/ Contains(errStr, TxtStatus429)
             THEN TRUE
             ELSE IF \/ Contains(errStr, TxtConnectionRefused)
                     \/ Contains(errStr, TxtTimeout)
                     \/ Contains(errStr, TxtNetwork)
                     \/ Contains(errStr, TxtTemporary)
                  THEN TRUE
                  ELSE FALSE

\* math.Pow(2, attempt) for attempt >= 0.
RECURSIVE Pow2(_)
Pow2(n) == IF n = 0 THEN 1 ELSE 2 * Pow2(n - 1)

\* Mutant of CappedDelay: the cap at maxDelay is missing.
CappedDelayNoCap(attempt) == baseDelay * Pow2(attempt)

\* The exponential delay, capped at maxDelay, before the jitter is added.
CappedDelay(attempt) ==
    LET delay == baseDelay * Pow2(attempt)
    IN  IF delay > maxDelay THEN maxDelay ELSE delay

\* calculateBackoffDelay, with rand.Float64() = rnd / RandDen; the
\* conversion to time.Duration truncates.
calculateBackoffDelay(attempt, rnd) ==
    LET delay  == CappedDelay(attempt)
        jitter == (delay * rnd) \div (jitterFactorDen * RandDen)
    IN  delay + jitter

(***************************************************************************)
(* openaiREST: what one HTTP exchange makes the call return.               *)
(***************************************************************************)

\* client.Do failed: no response.
TransportFailure(text) == [kind |-> "transport", text |-> text]

\* A response arrived with this status line and body.
HTTPResponse(code, reason, body) ==
    [kind |-> "http", code |-> code, reason |-> reason, body |-> body]

\* Response bodies: a chat completion with one choice, one with no choice,
\* and bytes that are not JSON.
BodyCompletion ==
    [kind |-> "completion", ID |-> "r1", Created |-> 1, Model |-> "m1",
     Role |-> "assistant", Content |-> "hi", Think |-> "t"]
BodyNoChoices == [kind |-> "nochoices"]
BodyGarbage   == [kind |-> "garbage"]

\* ai.ExtractThinkTags(content) on the texts the modelled vendor sends: the
\* span between the markers is the think part, the rest is the content.
ExtractThinkTags(content) ==
    IF content = "<think>r</think>"
    THEN [content |-> "", thinkPart |-> "r"]
    ELSE [content |-> content, thinkPart |-> ""]

\* The message openaiREST builds from a decoded completion (the tool calls
\* and the usage counters are left out).
MessageOf(body) ==
    [Role      |-> body.Role,
     Content   |-> body.Content,
     Think     |-> body.Think,
     ToolCalls |-> <<>>,
     Response  |-> [ID |-> body.ID, Object |-> "chat.completion",
                    Created |-> body.Created, Model |-> body.Model]]

\* Mutant of openaiREST: the transport failure is formatted into the text
\* of a new error (%v) so its cause is no longer wrapped.
openaiRESTFlattens(outcome) ==
    IF outcome.kind = "transport"
    THEN [msg |-> EmptyMessage,
          err |-> TextError(Cat(TxtExecuteRequest, outcome.text))]
    ELSE IF outcome.code # 200
    THEN [msg |-> EmptyMessage,
          err |-> StatusError(outcome.code,
                              StatusLine(outcome.code, outcome.reason),
                              outcome.body)]
    ELSE IF outcome.body.kind = "garbage"
    THEN [msg |-> EmptyMessage,
          err |-> WrapError(TxtDecodeBody, TextError(TxtInvalidChar))]
    ELSE IF outcome.body.kind = "nochoices"
    THEN [msg |-> EmptyMessage, err |-> TextError(TxtNoChoices)]
    ELSE [msg |-> MessageOf(outcome.body), err |-> NilError]

\* openaiREST makes a single call to the OpenAI API: its return value for
\* each outcome of the exchange.
openaiREST(outcome) ==
    IF outcome.kind = "transport"
    THEN [msg |-> EmptyMessage,
          err |-> WrapError(TxtExecuteRequest, TextError(outcome.text))]
    ELSE IF outcome.code # 200
    THEN [msg |-> EmptyMessage,
          err |-> StatusError(outcome.code,
                              StatusLine(outcome.code, outcome.reason),
                              outcome.body)]
    ELSE IF outcome.body.kind = "garbage"
    THEN [msg |-> EmptyMessage,
          err |-> WrapError(TxtDecodeBody, TextError(TxtInvalidChar))]
    ELSE IF outcome.body.kind = "nochoices"
    THEN [msg |-> EmptyMessage, err |-> TextError(TxtNoChoices)]
    ELSE [msg |-> MessageOf(outcome.body), err |-> NilError]

\* The exchanges the modelled server and network can produce while the
\* context is live.
StatusResponses ==
    {HTTPResponse(400, TxtBadRequest, "e400"),
     HTTPResponse(401, TxtUnauthorized, "e401"),
     HTTPResponse(429, TxtTooManyRequests, "e429"),
     HTTPResponse(500, TxtInternalServerError, "e500"),
     HTTPResponse(500, TxtUpstreamTimeout, "e500"),
     HTTPResponse(502, TxtBadGateway, "e502"),
     HTTPResponse(503, TxtServiceUnavailable, "e503"),
     HTTPResponse(504, TxtGatewayTimeout, "e504")}

OKResponses ==
    {HTTPResponse(200, <<"O", "K">>, BodyCompletion),
     HTTPResponse(200, <<"O", "K">>, BodyNoChoices),
     HTTPResponse(200, <<"O", "K">>, BodyGarbage)}

TransportFailures ==
    {TransportFailure(TxtDialRefused),
     TransportFailure(TxtIOTimeout),
     TransportFailure(TxtEOF)}

LiveOutcomes == StatusResponses \cup OKResponses \cup TransportFailures

\* ctx.Err() once the context is done.
CtxErr(ctx) ==
    IF ctx = "canceled" THEN TextError(TxtContextCanceled)
    ELSE TextError(TxtDeadlineExceeded)

\* The exchange of a request whose context is done: client.Do gives up and
\* returns the context's error (net/http prefers the cancellation error to
\* whatever error the cancellation caused further down).
DoneOutcomes(ctx) == {TransportFailure(CtxErr(ctx).text)}

(***************************************************************************)
(* The request payload: OpenAIChatRequest and json.Marshal.                *)
(***************************************************************************)

\* A pointer field of ai.Model: nil, or pointing at a value.
Unset  == [set |-> FALSE]
Set(v) == [set |-> TRUE, v |-> v]

\* The generation parameters of ai.Model that the request copies.  The
\* numbers stand for 0 and one non-zero value of the field's type.
GenerationParams ==
    {"Temperature", "MaxTokens", "TopP", "FrequencyPenalty", "PresencePenalty",
     "StopSequences"}

NumberSettings == {Unset, Set(0), Set(1)}
StopSettings   == {Unset, Set(<<>>), Set(<<"END">>)}

Models ==
    [Temperature      : NumberSettings,
     MaxTokens        : NumberSettings,
     TopP             : NumberSettings,
     FrequencyPenalty : NumberSettings,
     PresencePenalty  : NumberSettings,
     StopSequences    : StopSettings]

\* The request struct both openaiREST and openaiStreamREST fill in: a field
\* keeps its zero value unless the model's pointer is non-nil.
OpenAIChatRequest(model, streaming) ==
    [Model            |-> "gpt",
     Messages         |-> <<"m">>,
     Temperature      |-> IF model.Temperature.set THEN model.Temperature.v ELSE 0,
     MaxTokens        |-> IF model.MaxTokens.set THEN model.MaxTokens.v ELSE 0,
     TopP             |-> IF model.TopP.set THEN model.TopP.v ELSE 0,
     FrequencyPenalty |-> IF model.FrequencyPenalty.set
                          THEN model.FrequencyPenalty.v ELSE 0,
     PresencePenalty  |-> IF model.PresencePenalty.set
                          THEN model.PresencePenalty.v ELSE 0,
     Stop             |-> IF model.StopSequences.set THEN model.StopSequences.v ELSE <<>>,
     Stream           |-> streaming]

\* The JSON key of each field that is tagged omitempty, and whether
\* encoding/json takes the field's value for empty (false, 0, a nil or
\* empty slice).
OmitEmptyKeys ==
    {"temperature", "max_tokens", "top_p", "frequency_penalty",
     "presence_penalty", "stop", "stream"}

FieldOf(key) ==
    CASE key = "model"             -> "Model"
      [] key = "messages"          -> "Messages"
      [] key = "temperature"       -> "Temperature"
      [] key = "max_tokens"        -> "MaxTokens"
      [] key = "top_p"             -> "TopP"
      [] key = "frequency_penalty" -> "FrequencyPenalty"
      [] key = "presence_penalty"  -> "PresencePenalty"
      [] key = "stop"              -> "Stop"
      [] key = "stream"            -> "Stream"

IsEmptyValue(req, key) ==
    CASE key = "stop"   -> Len(req.Stop) = 0
      [] key = "stream" -> ~req.Stream
      [] OTHER          -> req[FieldOf(key)] = 0

\* json.Marshal(req): the JSON object, as a function from the keys present
\* to their values.
Marshal(req) ==
    LET keys == {"model", "messages"}
                \cup {k \in OmitEmptyKeys : ~IsEmptyValue(req, k)}
    IN  [k \in keys |-> req[FieldOf(k)]]

\* The request is built and marshalled, by openaiREST (stream false) or by
\* openaiStreamREST (stream true).
BuildPayload ==
    /\ pure.fn = "OpenAIChatRequest"
    /\ ~pure.called
    /\ pure' = [pure EXCEPT !.called = TRUE,
                            !.out = Marshal(OpenAIChatRequest(pure.in.model,
                                                              pure.in.stream))]
    /\ UNCHANGED <<dec, hist, retry, stream, store>>

(***************************************************************************)
(* openAIConvertMessages: the resource variant.                            *)
(***************************************************************************)
TxtFileScheme  == <<"f", "i", "l", "e", ":", "/", "/">>
TxtImageSlash  == <<"i", "m", "a", "g", "e", "/">>
TxtDataColon   == <<"d", "a", "t", "a", ":">>
TxtBase64Comma == <<";", "b", "a", "s", "e", "6", "4", ",">>
TxtFileLabel   == <<"F", "i", "l", "e", ":", " ">>

\* strings.HasPrefix(s, prefix) and strings.TrimPrefix(s, prefix).
HasPrefix(s, prefix) ==
    Len(s) >= Len(prefix) /\ SubSeq(s, 1, Len(prefix)) = prefix

TrimPrefix(s, prefix) ==
    IF HasPrefix(s, prefix) THEN SubSeq(s, Len(prefix) + 1, Len(s)) ELSE s

\* The byte value of the characters the modelled bodies are made of.
Ord(c) ==
    CASE c = "h" -> 104
      [] c = "i" -> 105
      [] c = "!" -> 33

Base64Alphabet ==
    <<"A", "B", "C", "D", "E", "F", "G", "H", "I", "J", "K", "L", "M",
      "N", "O", "P", "Q", "R", "S", "T", "U", "V", "W", "X", "Y", "Z",
      "a", "b", "c", "d", "e", "f", "g", "h", "i", "j", "k", "l", "m",
      "n", "o", "p", "q", "r", "s", "t", "u", "v", "w", "x", "y", "z",
      "0", "1", "2", "3", "4", "5", "6", "7", "8", "9", "+", "/">>

Base64Char(n) == Base64Alphabet[n + 1]

\* base64.StdEncoding.EncodeToString(body): three bytes make four
\* characters, a shorter tail is padded with "=".
RECURSIVE EncodeToString(_)
EncodeToString(body) ==
    IF Len(body) = 0 THEN <<>>
    ELSE LET b1 == Ord(body[1])
             b2 == IF Len(body) >= 2 THEN Ord(body[2]) ELSE 0
             b3 == IF Len(body) >= 3 THEN Ord(body[3]) ELSE 0
             c1 == Base64Char(b1 \div 4)
             c2 == Base64Char((b1 % 4) * 16 + b2 \div 16)
             c3 == Base64Char((b2 % 16) * 4 + b3 \div 64)
             c4 == Base64Char(b3 % 64)
         IN  IF Len(body) = 1 THEN <<c1, c2, "=", "=">>
             ELSE IF Len(body) = 2 THEN <<c1, c2, c3, "=">>
             ELSE <<c1, c2, c3, c4>> \o EncodeToString(SubSeq(body, 4, Len(body)))

\* The Body of a resource message (an interface value): a []byte, a string
\* or nil.
BytesBody(v)  == [kind |-> "bytes", v |-> v]
StringBody(v) == [kind |-> "string", v |-> v]
NilBody       == [kind |-> "nil", v |-> <<>>]

\* The Content of an OpenAIMessage (an interface value): a string, a list
\* of content parts or nil.
StringContent(v)    == [kind |-> "string", v |-> v]
PartsContent(parts) == [kind |-> "parts", parts |-> parts]
NilContent          == [kind |-> "nil"]

\* OpenAIContentPart{Type: "file", File: &OpenAIFile{FileID}} and
\* OpenAIContentPart{Type: "text", Text}.
FilePart(fileID) == [Type |-> "file", Text |-> <<>>, File |-> Set([FileID |-> fileID])]
TextPart(text)   == [Type |-> "text", Text |-> text, File |-> Unset]

\* openaiMessages[i].Content = r.Body, for a body of any type.
ContentOfBody(body) ==
    IF body.kind = "nil" THEN NilContent ELSE StringContent(body.v)

\* Mutant of ConvertFileReference: the file name is preferred to the
\* description.
ConvertFileReferenceNameFirst(r) ==
    LET fileID == TrimPrefix(r.URI, TxtFileScheme)
        text   == IF r.Name # <<>>
                  THEN <<TextPart(Cat(TxtFileLabel, r.Name))>>
                  ELSE IF r.Description # <<>>
                       THEN <<TextPart(r.Description)>>
                       ELSE <<>>
    IN  PartsContent(<<FilePart(fileID)>> \o text)

\* The branch of a remote-file reference.
ConvertFileReference(r) ==
    LET fileID == TrimPrefix(r.URI, TxtFileScheme)
        text   == IF r.Description # <<>>
                  THEN <<TextPart(r.Description)>>
                  ELSE IF r.Name # <<>>
                       THEN <<TextPart(Cat(TxtFileLabel, r.Name))>>
                       ELSE <<>>
    IN  PartsContent(<<FilePart(fileID)>> \o text)

\* The branch of an image: the data URL of a []byte body, any other body
\* as it is.
ConvertImage(r) ==
    IF r.Body.kind = "bytes"
    THEN StringContent(Cat(TxtDataColon,
                           Cat(r.MIMEType,
                               Cat(TxtBase64Comma, EncodeToString(r.Body.v)))))
    ELSE ContentOfBody(r.Body)

\* The branch of everything else: string(bodyBytes), the string, or the
\* body as it is.
ConvertText(r) == ContentOfBody(r.Body)

\* Mutant of ConvertResource: the MIME type is looked at before the URI.
ConvertResourceImageFirst(r) ==
    IF r.MIMEType # <<>> /\ HasPrefix(r.MIMEType, TxtImageSlash)
    THEN ConvertImage(r)
    ELSE IF HasPrefix(r.URI, TxtFileScheme)
    THEN ConvertFileReference(r)
    ELSE ConvertText(r)

\* case ai.ResourceMessage: the Content of the converted message.
ConvertResource(r) ==
    IF HasPrefix(r.URI, TxtFileScheme)
    THEN ConvertFileReference(r)
    ELSE IF r.MIMEType # <<>> /\ HasPrefix(r.MIMEType, TxtImageSlash)
    THEN ConvertImage(r)
    ELSE ConvertText(r)

\* The resource messages the translator is applied to.
URIFile   == <<"f", "i", "l", "e", ":", "/", "/", "f", "1">>
URIWeb    == <<"h", "t", "t", "p", "s", ":", "/", "/", "x", "/", "a">>
MIMEPng   == <<"i", "m", "a", "g", "e", "/", "p", "n", "g">>
MIMEPlain == <<"t", "e", "x", "t", "/", "p", "l", "a", "i", "n">>
NameDoc   == <<"a", ".", "p", "d", "f">>
DescDoc   == <<"d", "o", "c">>

Bodies ==
    {BytesBody(<<"h", "i">>), BytesBody(<<"h">>), BytesBody(<<"h", "i", "!", "h">>),
     StringBody(<<"h", "i">>), NilBody}

ResourceMessages ==
    [URI         : {<<>>, URIFile, URIWeb},
     MIMEType    : {<<>>, MIMEPng, MIMEPlain},
     Name        : {<<>>, NameDoc},
     Description : {<<>>, DescDoc},
     Body        : Bodies]

\* openAIConvertMessages is called on one resource message.
Convert ==
    /\ pure.fn = "openAIConvertMessages"
    /\ ~pure.called
    /\ pure' = [pure EXCEPT !.called = TRUE, !.out = ConvertResource(pure.in)]
    /\ UNCHANGED <<dec, hist, retry, stream, store>>

(***************************************************************************)
(* openAIConvertMessages: a list of messages.                              *)
(***************************************************************************)

\* The messages of the ai package, one of each variant the switch knows,
\* and a pointer to a message, which it does not.
UserMessage   == [type |-> "UserMessage", Role |-> "user", Content |-> <<"u">>]
AIMessage     == [type |-> "AIMessage", Role |-> "assistant", Content |-> <<"a">>,
                  ToolCalls |-> <<[ID |-> "c0", Type |-> "function",
                                   Name |-> "f", Args |-> "x"]>>]
ToolMessage   == [type |-> "ToolMessage", Role |-> "tool", Content |-> <<"t">>,
                  ToolCallID |-> "c0"]
SystemMessage == [type |-> "SystemMessage", Role |-> "system", Content |-> <<"s">>]
ResourceMessage ==
    [type |-> "ResourceMessage", Role |-> "user", URI |-> <<>>, MIMEType |-> MIMEPng,
     Name |-> NameDoc, Description |-> <<>>, Body |-> BytesBody(<<"h", "i">>)]
PointerMessage == [type |-> "*UserMessage", Role |-> "user", Content |-> <<"p">>]

Messages ==
    {UserMessage, AIMessage, ToolMessage, SystemMessage, ResourceMessage,
     PointerMessage}

\* The cases of the type switch.
RecognizedTypes ==
    {"UserMessage", "AIMessage", "ToolMessage", "SystemMessage", "ResourceMessage"}

\* The OpenAIToolCall of each tool call of an assistant message.
ConvertToolCalls(toolCalls) ==
    [i \in 1..Len(toolCalls) |->
        [ID |-> toolCalls[i].ID, Type |-> toolCalls[i].Type,
         Name |-> toolCalls[i].Name, Arguments |-> toolCalls[i].Args]]

\* One iteration of the loop for a message of a recognized variant.
ConvertMessage(msg) ==
    LET m == [Role |-> msg.Role, Content |-> NilContent, ToolCalls |-> <<>>,
              ToolCallID |-> ""]
    IN  CASE msg.type = "UserMessage" ->
                [m EXCEPT !.Content = StringContent(msg.Content)]
          [] msg.type = "AIMessage" ->
                [m EXCEPT !.Content = StringContent(msg.Content),
                          !.ToolCalls = ConvertToolCalls(msg.ToolCalls)]
          [] msg.type = "ToolMessage" ->
                [m EXCEPT !.Content = StringContent(msg.Content),
                          !.ToolCallID = msg.ToolCallID]
          [] msg.type = "SystemMessage" ->
                [m EXCEPT !.Content = StringContent(msg.Content)]
          [] msg.type = "ResourceMessage" ->
                [m EXCEPT !.Content = ConvertResource(msg)]

\* Mutant of ConvertFrom: a message of an unknown variant is left out.
RECURSIVE ConvertFromSkipping(_, _, _)
ConvertFromSkipping(messages, i, out) ==
    IF i > Len(messages)
    THEN [panic |-> FALSE, messages |-> out]
    ELSE IF messages[i].type \notin RecognizedTypes
    THEN ConvertFromSkipping(messages, i + 1, out)
    ELSE ConvertFromSkipping(messages, i + 1, Append(out, ConvertMessage(messages[i])))

\* The loop over the messages from index i on: the default case panics and
\* nothing is returned.
RECURSIVE ConvertFrom(_, _, _)
ConvertFrom(messages, i, out) ==
    IF i > Len(messages)
    THEN [panic |-> FALSE, messages |-> out]
    ELSE IF messages[i].type \notin RecognizedTypes
    THEN [panic |-> TRUE, messages |-> <<>>]
    ELSE ConvertFrom(messages, i + 1, Append(out, ConvertMessage(messages[i])))

openAIConvertMessages(messages) == ConvertFrom(messages, 1, <<>>)

\* The message lists a call is made with.
MessageLists ==
    UNION {[1..n -> Messages] : n \in 0..MaxMessages}

\* The messages of a call whose messages are not what is looked at.
DefaultMessages == <<UserMessage>>

(***************************************************************************)
(* openaiGenerateWithRetry.                                                *)
(***************************************************************************)
InitRetry ==
    [pc       |-> "start",      \* "start": top of the loop body; "inflight": in
                                \* openaiREST; "sleep": in the select; "done"
     attempt  |-> 0,
     err      |-> NilError,     \* err of the latest openaiREST call
     lastErr  |-> NilError,
     delay    |-> 0,
     ctx      |-> "live",       \* "live", "canceled" or "deadline"
     messages |-> DefaultMessages,  \* the messages argument
     sent     |-> <<>>,         \* openaiMessages of the latest openaiREST call
     requests |-> 0,            \* calls of openaiREST so far
     sleeps   |-> 0,            \* selects entered so far
     result   |-> [msg |-> EmptyMessage, err |-> NilError]]

\* return ..., ...
Return(st, msg, err) ==
    [st EXCEPT !.pc = "done", !.result = [msg |-> msg, err |-> err]]

\* After the loop: all retries exhausted.
Exhausted(st) ==
    Return(st, EmptyMessage,
           WrapError(Cat(TxtAfterAttempts, Cat(Itoa(maxRetries + 1), TxtLastError)),
                     st.lastErr))

\* The select on ctx.Done() and time.After(delay), at the moment it is
\* entered: a context that is already done is taken at once, otherwise the
\* call blocks.
EnterSelect(st, delay) ==
    LET s == [st EXCEPT !.delay = delay, !.sleeps = @ + 1]
    IN  IF s.ctx # "live"
        THEN Return(s, EmptyMessage, WrapError(TxtCancelledDuringRetry, CtxErr(s.ctx)))
        ELSE [s EXCEPT !.pc = "sleep"]

\* Mutant of AfterREST: every error is retried, retryable or not.
AfterRESTRetryAll(st, r, rnd) ==
    LET s == [st EXCEPT !.err = r.err]
    IN  IF r.err = NilError
        THEN Return(s, r.msg, NilError)
        ELSE LET t == [s EXCEPT !.lastErr = r.err]
             IN  IF t.attempt = maxRetries
                 THEN Exhausted(t)
                 ELSE EnterSelect(t, calculateBackoffDelay(t.attempt, rnd))

\* Mutant of AfterREST: the loop gives up one attempt early.
AfterRESTBreaksEarly(st, r, rnd) ==
    LET s == [st EXCEPT !.err = r.err]
    IN  IF r.err = NilError
        THEN Return(s, r.msg, NilError)
        ELSE LET t == [s EXCEPT !.lastErr = r.err]
             IN  IF ~isRetryableError(r.err)
                 THEN Return(t, EmptyMessage, WrapError(TxtNonRetryable, r.err))
                 ELSE IF t.attempt + 1 = maxRetries
                      THEN Exhausted(t)
                      ELSE EnterSelect(t, calculateBackoffDelay(t.attempt, rnd))

\* Mutant of AfterREST: a successful attempt is followed by a sleep and
\* another attempt unless it was the last one.
AfterRESTRetriesSuccess(st, r, rnd) ==
    LET s == [st EXCEPT !.err = r.err]
    IN  IF r.err = NilError /\ s.attempt = maxRetries
        THEN Return(s, r.msg, NilError)
        ELSE IF r.err = NilError
        THEN EnterSelect(s, calculateBackoffDelay(s.attempt, rnd))
        ELSE LET t == [s EXCEPT !.lastErr = r.err]
             IN  IF ~isRetryableError(r.err)
                 THEN Return(t, EmptyMessage, WrapError(TxtNonRetryable, r.err))
                 ELSE IF t.attempt = maxRetries
                      THEN Exhausted(t)
                      ELSE EnterSelect(t, calculateBackoffDelay(t.attempt, rnd))

\* Mutant of AfterREST: the delay is computed from the index of the attempt
\* to come.
AfterRESTDelayOfNext(st, r, rnd) ==
    LET s == [st EXCEPT !.err = r.err]
    IN  IF r.err = NilError
        THEN Return(s, r.msg, NilError)
        ELSE LET t == [s EXCEPT !.lastErr = r.err]
             IN  IF ~isRetryableError(r.err)
                 THEN Return(t, EmptyMessage, WrapError(TxtNonRetryable, r.err))
                 ELSE IF t.attempt = maxRetries
                      THEN Exhausted(t)
                      ELSE EnterSelect(t, calculateBackoffDelay(t.attempt + 1, rnd))

\* The loop body after openaiREST returned r, down to the select.
AfterREST(st, r, rnd) ==
    LET s == [st EXCEPT !.err = r.err]
    IN  IF r.err = NilError
        THEN Return(s, r.msg, NilError)
        ELSE LET t == [s EXCEPT !.lastErr = r.err]
             IN  IF ~isRetryableError(r.err)
                 THEN Return(t, EmptyMessage, WrapError(TxtNonRetryable, r.err))
                 ELSE IF t.attempt = maxRetries
                      THEN Exhausted(t)
                      ELSE EnterSelect(t, calculateBackoffDelay(t.attempt, rnd))

\* The loop body starts: messages and tools are converted and openaiREST
\* is called; a panic of the conversion ends the call there.
StartAttempt ==
    /\ retry.pc = "start"
    /\ LET c == openAIConvertMessages(retry.messages)
       IN  retry' = IF c.panic
                    THEN [retry EXCEPT !.pc = "panic"]
                    ELSE [retry EXCEPT !.pc = "inflight", !.requests = @ + 1,
                                       !.sent = c.messages]
    /\ UNCHANGED <<dec, hist, pure, stream, store>>

\* openaiREST returns and the loop body runs on to a return or the select.
AttemptReturns ==
    /\ retry.pc = "inflight"
    /\ \E outcome \in (IF retry.ctx = "live" THEN LiveOutcomes
                                              ELSE DoneOutcomes(retry.ctx)) :
         \E rnd \in 0..(RandDen - 1) :
            retry' = AfterREST(retry, openaiREST(outcome), rnd)
    /\ UNCHANGED <<dec, hist, pure, stream, store>>

\* Mutant of TimerFires: the select waits on a channel nothing is sent on,
\* so only the context can wake it.
TimerNeverFires ==
    /\ retry.pc = "sleep"
    /\ FALSE
    /\ UNCHANGED vars

\* Mutant of TimerFires: the sleep does not watch the context (time.Sleep).
TimerFiresIgnoringContext ==
    /\ retry.pc = "sleep"
    /\ retry' = [retry EXCEPT !.pc = "start", !.attempt = @ + 1]
    /\ UNCHANGED <<dec, hist, pure, stream, store>>

\* case <-time.After(delay): the timer wakes the select the call is blocked
\* in and the loop goes on to the next attempt.  A blocked select takes the
\* case of the channel that wakes it, so the timer takes it only while the
\* context is live: a context that became done first has taken it already.
TimerFires ==
    /\ retry.pc = "sleep"
    /\ retry.ctx = "live"
    /\ retry' = [retry EXCEPT !.pc = "start", !.attempt = @ + 1]
    /\ UNCHANGED <<dec, hist, pure, stream, store>>

\* case <-ctx.Done(): the done context wakes the blocked select.
SleepCancelled ==
    /\ retry.pc = "sleep"
    /\ retry.ctx # "live"
    /\ retry' = Return(retry, EmptyMessage,
                       WrapError(TxtCancelledDuringRetry, CtxErr(retry.ctx)))
    /\ UNCHANGED <<dec, hist, pure, stream, store>>

\* The caller cancels the context, or its deadline expires.
ContextDone ==
    /\ retry.pc # "done"
    /\ retry.ctx = "live"
    /\ \E why \in {"canceled", "deadline"} : retry' = [retry EXCEPT !.ctx = why]
    /\ UNCHANGED <<dec, hist, pure, stream, store>>

\* scanner.Scan() returns false: the body ended, or reading it failed.
DecodeEnd ==
    /\ dec.pc = "scan"
    /\ \E end \in Ends :
         /\ dec'  = ProcessLine(dec, end, NilError)
         /\ hist' = Append(hist, [line |-> end, cb |-> NilError])
    /\ UNCHANGED <<retry, pure, stream, store>>

(***************************************************************************)
(* openaiStream and openaiStreamREST: one streaming call.                  *)
(***************************************************************************)

\* The exchanges of the streaming request: the ones of openaiREST, except
\* that the body of a 200 response is the event stream parseSSEResponse
\* scans line by line.
BodyEventStream == [kind |-> "sse"]

StreamOutcomes ==
    StatusResponses \cup TransportFailures
    \cup {HTTPResponse(200, <<"O", "K">>, BodyEventStream)}

InitStream ==
    [pc       |-> "start",      \* "start": in openaiStream before client.Do;
                                \* "inflight": in client.Do; "decoding": in
                                \* parseSSEResponse; "done"
     messages |-> DefaultMessages,  \* the messages argument
     sent     |-> <<>>,         \* openaiMessages of the request
     requests |-> 0,            \* calls of client.Do so far
     outcome  |-> [kind |-> "none"],
     ctx      |-> "live",       \* "live", "canceled" or "deadline"
     result   |-> [msg |-> EmptyMessage, err |-> NilError]]

\* Mutant of AfterStreamResponse: a retryable failure of the request sends
\* the call back to issue the request again.
AfterStreamResponseRetries(st, outcome) ==
    LET s == [st EXCEPT !.outcome = outcome]
    IN  IF outcome.kind = "transport"
        THEN IF isRetryableError(WrapError(TxtExecuteRequest, TextError(outcome.text)))
             THEN [s EXCEPT !.pc = "start"]
             ELSE [s EXCEPT !.pc = "done",
                            !.result = [msg |-> EmptyMessage,
                                        err |-> WrapError(TxtExecuteRequest,
                                                          TextError(outcome.text))]]
        ELSE IF outcome.code # 200
        THEN IF outcome.code \in {429, 502, 503, 504}
             THEN [s EXCEPT !.pc = "start"]
             ELSE [s EXCEPT !.pc = "done",
                            !.result = [msg |-> EmptyMessage,
                                        err |-> StatusError(outcome.code,
                                                            StatusLine(outcome.code, outcome.reason),
                                                            outcome.body)]]
        ELSE [s EXCEPT !.pc = "decoding"]

\* Mutant of AfterStreamResponse: the body of a failed status is handed to
\* the decoder like the body of a 200.
AfterStreamResponseParsesAll(st, outcome) ==
    LET s == [st EXCEPT !.outcome = outcome]
    IN  IF outcome.kind = "transport"
        THEN [s EXCEPT !.pc = "done",
                       !.result = [msg |-> EmptyMessage,
                                   err |-> WrapError(TxtExecuteRequest,
                                                     TextError(outcome.text))]]
        ELSE [s EXCEPT !.pc = "decoding"]

\* openaiStreamREST after client.Do returned: a transport failure and a
\* status other than 200 are returned as errors, a 200 goes on to
\* parseSSEResponse.
AfterStreamResponse(st, outcome) ==
    LET s == [st EXCEPT !.outcome = outcome]
    IN  IF outcome.kind = "transport"
        THEN [s EXCEPT !.pc = "done",
                       !.result = [msg |-> EmptyMessage,
                                   err |-> WrapError(TxtExecuteRequest,
                                                     TextError(outcome.text))]]
        ELSE IF outcome.code # 200
        THEN [s EXCEPT !.pc = "done",
                       !.result = [msg |-> EmptyMessage,
                                   err |-> StatusError(outcome.code,
                                                       StatusLine(outcome.code, outcome.reason),
                                                       outcome.body)]]
        ELSE [s EXCEPT !.pc = "decoding"]

\* return parseSSEResponse(resp, chunkFunction): the call returns what the
\* decoder returns, when it returns.
AfterDecode(st, d) ==
    IF d.pc = "done" THEN [st EXCEPT !.pc = "done", !.result = d.result] ELSE st

\* openaiStream converts the messages and the tools and openaiStreamREST
\* sends the request; a panic of the conversion ends the call there.
StreamRequest ==
    /\ stream.pc = "start"
    /\ LET c == openAIConvertMessages(stream.messages)
       IN  stream' = IF c.panic
                     THEN [stream EXCEPT !.pc = "panic"]
                     ELSE [stream EXCEPT !.pc = "inflight", !.requests = @ + 1,
                                         !.sent = c.messages]
    /\ UNCHANGED <<dec, hist, retry, pure, store>>

\* Mutant of StreamResponds: the error of the request is also stored where
\* the retry loop of the other call keeps its last error, as if lastErr were
\* a variable of the package.
StreamRespondsSharingLastErr ==
    /\ stream.pc = "inflight"
    /\ \E outcome \in (IF stream.ctx = "live" THEN StreamOutcomes
                                               ELSE DoneOutcomes(stream.ctx)) :
         stream' = AfterStreamResponse(stream, outcome)
    /\ retry' = [retry EXCEPT !.lastErr = stream'.result.err]
    /\ UNCHANGED <<dec, hist, pure, store>>

\* client.Do returns.
StreamResponds ==
    /\ stream.pc = "inflight"
    /\ \E outcome \in (IF stream.ctx = "live" THEN StreamOutcomes
                                               ELSE DoneOutcomes(stream.ctx)) :
         stream' = AfterStreamResponse(stream, outcome)
    /\ UNCHANGED <<dec, hist, retry, pure, store>>

\* parseSSEResponse scans a line of the response body.
StreamDecodeLine ==
    /\ stream.pc = "decoding"
    /\ dec.pc = "scan"
    /\ stream.ctx = "live"
    /\ Len(hist) < MaxLines
    /\ \E line \in Lines :
         \E cbRet \in (IF InvokesCallback(line) THEN CallbackReturns ELSE {NilError}) :
            /\ dec'  = ProcessLine(dec, line, cbRet)
            /\ hist' = Append(hist, [line |-> line, cb |-> cbRet])
    /\ stream' = AfterDecode(stream, dec')
    /\ UNCHANGED <<retry, pure, store>>

\* parseSSEResponse finds the body ended, or fails to read it.
StreamDecodeEnd ==
    /\ stream.pc = "decoding"
    /\ dec.pc = "scan"
    /\ stream.ctx = "live"
    /\ \E end \in Ends :
         /\ dec'  = ProcessLine(dec, end, NilError)
         /\ hist' = Append(hist, [line |-> end, cb |-> NilError])
    /\ stream' = AfterDecode(stream, dec')
    /\ UNCHANGED <<retry, pure, store>>

\* The caller cancels the context of the streaming call, or its deadline
\* expires, while the request is in flight or while the decoder is blocked
\* in a read of the body.  The request was made with
\* http.NewRequestWithContext(ctx, ...), so the context governs the reads
\* of resp.Body too.  The decoder never looks at the context: lines that
\* are buffered when the context becomes done are scanned as if they had
\* been scanned before, so the context is modelled as becoming done at a
\* read that blocks, one of the first MaxReadsBeforeCancel + 1 reads.
StreamContextDone ==
    /\ \/ stream.pc = "inflight"
       \/ stream.pc = "decoding" /\ dec.pc = "scan" /\ Len(hist) <= MaxReadsBeforeCancel
    /\ stream.ctx = "live"
    /\ \E why \in {"canceled", "deadline"} : stream' = [stream EXCEPT !.ctx = why]
    /\ UNCHANGED <<dec, hist, retry, pure, store>>

\* The unfinished last line a failed read leaves in the scanner's buffer:
\* none, or one more token that scanner.Scan() delivers before it stops.
NoTail == [kind |-> "none"]
Tails == {NoTail, DoneLine, ChunkLine(ChunkA), ChunkLine(ChunkFinish)}

\* Mutant of ReadAfterCancel: the read does not notice the done context and
\* the decoder stays where it is.
ReadAfterCancelBlocks(st, ctx, tail, cbRet) == st

\* parseSSEResponse when the read of the body fails with the context's
\* error: the scanner records the error, delivers the buffered tail (if
\* any) to the loop body, and then stops; unless the callback failed on the
\* tail, the call returns scanner.Err() wrapped, whatever the tail was.
ReadAfterCancel(st, ctx, tail, cbRet) ==
    LET d == IF tail = NoTail THEN st ELSE ProcessLine(st, tail, cbRet)
    IN  IF d.pc = "done" /\ d.result.err # NilError
        THEN d
        ELSE [d EXCEPT !.pc = "done",
                       !.result = [msg |-> EmptyMessage,
                                   err |-> WrapError(TxtReadingStream, CtxErr(ctx))]]

\* The read of resp.Body returns the error of the done context.
StreamReadCancelled ==
    /\ stream.pc = "decoding"
    /\ dec.pc = "scan"
    /\ stream.ctx # "live"
    /\ \E tail \in Tails :
         \E cbRet \in (IF tail # NoTail /\ InvokesCallback(tail)
                       THEN CallbackReturns ELSE {NilError}) :
            /\ dec'  = ReadAfterCancel(dec, stream.ctx, tail, cbRet)
            /\ hist' = Append(hist, [line |-> [kind |-> "ctxerr"], cb |-> cbRet])
    /\ stream' = AfterDecode(stream, dec')
    /\ UNCHANGED <<retry, pure, store>>

(***************************************************************************)
(* The pure helpers applied to inputs of their own.                        *)
(***************************************************************************)
ReasonPhrases ==
    {TxtBadRequest, TxtUnauthorized, TxtNotFound, TxtTooManyRequests,
     TxtInternalServerError, TxtBadGateway, TxtServiceUnavailable,
     TxtGatewayTimeout, TxtUpstreamTimeout}

StatusCodes == {400, 401, 404, 429, 500, 502, 503, 504}

\* The errors isRetryableError is applied to: nil, status errors of every
\* code with every reason phrase, and errors that are only a text, bare and
\* wrapped as openaiREST wraps a transport failure.
ErrorTexts ==
    {TxtConnectionRefused, TxtTimeout, TxtNetwork, TxtTemporary,
     TxtDialRefused, TxtIOTimeout, TxtNetUnreachable, TxtTemporaryFailure,
     TxtEOF, TxtNoChoices, TxtContextCanceled, TxtDeadlineExceeded}

ErrorInputs ==
    {NilError}
    \cup {StatusError(c, StatusLine(c, r), "body") : c \in StatusCodes, r \in ReasonPhrases}
    \cup {TextError(t) : t \in ErrorTexts}
    \cup {WrapError(TxtExecuteRequest, TextError(t)) : t \in ErrorTexts}

InitPure == [fn |-> "none", in |-> "none", called |-> FALSE, out |-> "none"]

\* isRetryableError(err) is called.
Classify ==
    /\ pure.fn = "isRetryableError"
    /\ ~pure.called
    /\ pure' = [pure EXCEPT !.called = TRUE, !.out = isRetryableError(pure.in)]
    /\ UNCHANGED <<dec, hist, retry, stream, store>>

\* calculateBackoffDelay(attempt) is called; rand.Float64() gives rnd / RandDen.
Backoff ==
    /\ pure.fn = "calculateBackoffDelay"
    /\ ~pure.called
    /\ pure' = [pure EXCEPT !.called = TRUE,
                            !.out = calculateBackoffDelay(pure.in.attempt, pure.in.rnd)]
    /\ UNCHANGED <<dec, hist, retry, stream, store>>

(***************************************************************************)
(* openaiREST called on its own.                                           *)
(***************************************************************************)

\* The exchanges of a single openaiREST call: those of the retry loop and
\* failed statuses whose body would decode as a completion or is not JSON.
ExecutorOutcomes ==
    LiveOutcomes
    \cup {HTTPResponse(404, TxtNotFound, BodyCompletion),
          HTTPResponse(404, TxtNotFound, BodyGarbage)}

\* openaiREST(ctx, model, messages, tools) is called and returns.
CallREST ==
    /\ pure.fn = "openaiREST"
    /\ ~pure.called
    /\ pure' = [pure EXCEPT !.called = TRUE, !.out = openaiREST(pure.in)]
    /\ UNCHANGED <<dec, hist, retry, stream, store>>

(***************************************************************************)
(* The document store: OpenAIStore.                                        *)
(*                                                                         *)
(* A caller works on the store one operation at a time (AddDocument, Open, *)
(* DeleteDocument); Close runs in a goroutine of its own and may overlap   *)
(* an operation of the caller.  Every access to fm.docs is made under      *)
(* fm.mu, so each one is a step; the remote call of an operation is a step *)
(* before it, made without the lock.  In these operations the retries      *)
(* inside the remote helpers are folded into the outcome of the helper;    *)
(* the loop of a helper is modelled on its own, one HTTP exchange at a     *)
(* time (SpecRemote), and so are goroutines that call Open at the same     *)
(* time (SpecOpens).                                                       *)
(***************************************************************************)

\* The file ids: 0 is a file uploaded by someone else, 1..MaxUploads are
\* the ids the remote API gives to the files this store uploads.
FileIDs == 0..MaxUploads

NoFile == 0 - 1

\* document.NewInMemoryDocument(fileID, filename, ...): a pointer to a new
\* document; addr tells the object from every other one.
NewInMemoryDocument(addr, fileID, filename) ==
    [addr |-> addr, ID |-> fileID, Filename |-> filename]

\* The goroutines that call Open at the same time, and the ids they ask
\* for: the foreign file, and a file the remote API does not hold.
Openers == 1..MaxOpeners

OpenIDs == {0, 1}

\* The retry loop the four remote helpers share (uploadBytesToOpenAI,
\* deleteFromOpenAI, getFileInfoFromOpenAI, NativeListDocuments), one HTTP
\* exchange at a time.  `maxRetries := 3` is a local of each helper.
storeMaxRetries == 3

RemoteFns == {"upload", "delete", "info", "list"}

\* What client.Do gives: an error and no response, or a response with a
\* status code and a body that json.Decode accepts or not as the helper's
\* answer.
NoResponse == [kind |-> "transport", code |-> 0, decodes |-> FALSE]

RemoteResponse(code, decodes) == [kind |-> "http", code |-> code, decodes |-> decodes]

RemoteResponses ==
    {NoResponse, RemoteResponse(200, TRUE), RemoteResponse(200, FALSE)}
    \cup {RemoteResponse(code, FALSE) : code \in {400, 404, 429, 500, 503, 599, 600}}

\* A helper before its call.  Durations are counted in milliseconds.
InitCall ==
    [fn        |-> "none",
     pc        |-> "idle",      \* "idle", "request", "backoff", "done"
     attempt   |-> 1,
     ctx       |-> "live",
     backoff   |-> 0,
     requests  |-> 0,           \* calls of client.Do so far
     responses |-> <<>>,        \* what they gave, in order
     waited    |-> <<>>,        \* the backoffs waited to their end, in order
     result    |-> [ok |-> FALSE, err |-> "none", code |-> 0]]

\* return ..., nil and return ..., err: the kind of the error and, for a
\* status error, the code in its text.
ReturnFromCall(c, ok, err, code) ==
    [c EXCEPT !.pc = "done", !.result = [ok |-> ok, err |-> err, code |-> code]]

\* backoff := time.Duration(attempt) * time.Second, and the select on
\* ctx.Done() and time.After(backoff) at the moment it is entered.
RemoteEnterSelect(c) ==
    LET s == [c EXCEPT !.backoff = c.attempt * 1000]
    IN  IF s.ctx # "live"
        THEN ReturnFromCall(s, FALSE, "context", 0)
        ELSE [s EXCEPT !.pc = "backoff"]

\* Mutant of AfterRemoteResponse: every status but 200 is retried.
AfterRemoteResponseRetriesAll(c, resp) ==
    LET d == [c EXCEPT !.responses = Append(@, resp)]
    IN  IF resp.kind = "transport"
        THEN ReturnFromCall(d, FALSE, "transport", 0)
        ELSE IF resp.code = 200
        THEN (IF c.fn = "delete" \/ resp.decodes
              THEN ReturnFromCall(d, TRUE, "nil", 0)
              ELSE ReturnFromCall(d, FALSE, "decode", 0))
        ELSE IF c.attempt < storeMaxRetries
        THEN RemoteEnterSelect(d)
        ELSE ReturnFromCall(d, FALSE, "status", resp.code)

\* The loop body from the return of client.Do on.  deleteFromOpenAI does
\* not read the body of a 200; the other three decode it and return the
\* decoding error.
AfterRemoteResponse(c, resp) ==
    LET d == [c EXCEPT !.responses = Append(@, resp)]
    IN  IF resp.kind = "transport"
        THEN ReturnFromCall(d, FALSE, "transport", 0)
        ELSE IF resp.code = 200
        THEN (IF c.fn = "delete" \/ resp.decodes
              THEN ReturnFromCall(d, TRUE, "nil", 0)
              ELSE ReturnFromCall(d, FALSE, "decode", 0))
        ELSE IF resp.code >= 500 /\ resp.code < 600 /\ c.attempt < storeMaxRetries
        THEN RemoteEnterSelect(d)
        ELSE ReturnFromCall(d, FALSE, "status", resp.code)

\* NewOpenAIFileManager: an empty map; the remote side holds the foreign
\* file.  log records the operations that returned, in the order in which
\* they returned; the fields of close record the run of Close.
InitStore ==
    [docs   |-> <<>>,           \* fm.docs
     remote |-> {0},            \* the files the remote API holds
     nextID |-> 1,              \* the id the remote API gives next
     op     |-> [kind |-> "none", id |-> NoFile],
     close  |-> [pc         |-> "idle",
                 docIDs     |-> {},      \* still to delete
                 current    |-> NoFile,  \* deleted remotely, not yet from the map
                 snapshot   |-> {},      \* docIDs as collected at the start
                 attempted  |-> {},
                 failed     |-> {},
                 concurrent |-> FALSE,   \* an operation of the caller overlapped
                 docsAtEnd  |-> {},      \* the keys of fm.docs when Close returned
                 logAtEnd   |-> 0],
     log    |-> <<>>,
     call   |-> InitCall,        \* one run of a remote helper, step by step
     nextAddr |-> 1,             \* the address of the next new document
     opens  |-> [t \in Openers |->
                   [pc |-> "idle", id |-> NoFile, calls |-> 0,
                    ret |-> [id |-> NoFile, ok |-> FALSE, addr |-> 0,
                             remote |-> FALSE]]],   \* what its latest Open returned
     handed |-> [id \in OpenIDs |-> {}]]   \* the objects Open returned, by id

\* ListDocuments: the values of fm.docs, in no order.
ListDocuments(st) == {st.docs[id] : id \in DOMAIN st.docs}

\* fm.docs[fileID] = doc.
PutDoc(docs, doc) ==
    [id \in DOMAIN docs \cup {doc.ID} |-> IF id = doc.ID THEN doc ELSE docs[id]]

\* delete(fm.docs, docID).
DeleteDoc(docs, docID) == [id \in DOMAIN docs \ {docID} |-> docs[id]]

\* An operation returned: what it was, on which id, whether its error was
\* nil, and whether it called the remote API.
Returned(st, kind, id, ok, remoteCall) ==
    [st EXCEPT !.log = Append(@, [op |-> kind, id |-> id, ok |-> ok,
                                  remote |-> remoteCall])]

\* An operation of the caller that takes a step while Close runs overlaps
\* it.
Overlap(st) ==
    IF st.close.pc = "deleting" THEN [st EXCEPT !.close.concurrent = TRUE] ELSE st

\* deleteFromOpenAI(ctx, fileID): the file is deleted and nil returned; or
\* an error is returned, with the file still there or (the response lost)
\* deleted.  A file the remote API does not hold cannot be deleted: the
\* status is not 200 and the call returns an error.
deleteFromOpenAI(remote, fileID) ==
    IF fileID \in remote
    THEN {[ok |-> TRUE,  remote |-> remote \ {fileID}],
          [ok |-> FALSE, remote |-> remote],
          [ok |-> FALSE, remote |-> remote \ {fileID}]}
    ELSE {[ok |-> FALSE, remote |-> remote]}

\* uploadBytesToOpenAI(ctx, doc): the file is stored under a new id that is
\* returned; or an error is returned, with nothing stored or (the response
\* lost) with the file stored all the same.
uploadBytesToOpenAI(remote, nextID) ==
    {[ok |-> TRUE,  id |-> nextID, remote |-> remote \cup {nextID}],
     [ok |-> FALSE, id |-> nextID, remote |-> remote],
     [ok |-> FALSE, id |-> nextID, remote |-> remote \cup {nextID}]}

\* getFileInfoFromOpenAI(ctx, fileID): the file's info, or an error; always
\* an error for a file the remote API does not hold.
getFileInfoFromOpenAI(remote, fileID) ==
    IF fileID \in remote THEN {TRUE, FALSE} ELSE {FALSE}

\* Mutant of AddDocumentUpload: the document is entered in the map before
\* the outcome of the upload is looked at.
AddDocumentUploadStoresFirst ==
    /\ store.op.kind = "none"
    /\ Len(store.log) < MaxOps
    /\ store.nextID <= MaxUploads
    /\ \E r \in uploadBytesToOpenAI(store.remote, store.nextID) :
         LET s == [Overlap(store) EXCEPT
                      !.remote = r.remote, !.nextID = @ + 1,
                      !.docs = PutDoc(@, NewInMemoryDocument(store.nextAddr, r.id,
                                                             "local.txt")),
                      !.nextAddr = @ + 1]
         IN  store' = IF r.ok
                      THEN [s EXCEPT !.op = [kind |-> "add", id |-> r.id]]
                      ELSE Returned(s, "add", r.id, FALSE, TRUE)
    /\ UNCHANGED <<dec, hist, retry, pure, stream>>

\* AddDocument up to the return of uploadBytesToOpenAI: an error ends the
\* operation, an id goes on to the map.
AddDocumentUpload ==
    /\ store.op.kind = "none"
    /\ Len(store.log) < MaxOps
    /\ store.nextID <= MaxUploads
    /\ \E r \in uploadBytesToOpenAI(store.remote, store.nextID) :
         LET s == [Overlap(store) EXCEPT !.remote = r.remote, !.nextID = @ + 1]
         IN  store' = IF r.ok
                      THEN [s EXCEPT !.op = [kind |-> "add", id |-> r.id]]
                      ELSE Returned(s, "add", r.id, FALSE, TRUE)
    /\ UNCHANGED <<dec, hist, retry, pure, stream>>

\* AddDocument: fm.docs[fileID] = uploadedDoc, and return.
AddDocumentStore ==
    /\ store.op.kind = "add"
    /\ LET doc == NewInMemoryDocument(store.nextAddr, store.op.id, "local.txt")
           s   == [Overlap(store) EXCEPT !.docs = PutDoc(@, doc),
                                         !.nextAddr = @ + 1,
                                         !.op = [kind |-> "none", id |-> NoFile]]
       IN  store' = Returned(s, "add", doc.ID, TRUE, TRUE)
    /\ UNCHANGED <<dec, hist, retry, pure, stream>>

\* Open up to the return of getFileInfoFromOpenAI: a document in the map is
\* returned at once, without a remote call; otherwise an error ends the
\* operation and the file's info goes on to the map.
OpenLookup ==
    /\ store.op.kind = "none"
    /\ Len(store.log) < MaxOps
    /\ \E fileID \in FileIDs :
         IF fileID \in DOMAIN store.docs
         THEN store' = Returned(Overlap(store), "open", fileID, TRUE, FALSE)
         ELSE \E ok \in getFileInfoFromOpenAI(store.remote, fileID) :
                 store' = IF ok
                          THEN [Overlap(store) EXCEPT !.op = [kind |-> "open", id |-> fileID]]
                          ELSE Returned(Overlap(store), "open", fileID, FALSE, TRUE)
    /\ UNCHANGED <<dec, hist, retry, pure, stream>>

\* Open: fm.docs[fileID] = doc, and return.
OpenStore ==
    /\ store.op.kind = "open"
    /\ LET doc == NewInMemoryDocument(store.nextAddr, store.op.id, "remote.txt")
           s   == [Overlap(store) EXCEPT !.docs = PutDoc(@, doc),
                                         !.nextAddr = @ + 1,
                                         !.op = [kind |-> "none", id |-> NoFile]]
       IN  store' = Returned(s, "open", doc.ID, TRUE, TRUE)
    /\ UNCHANGED <<dec, hist, retry, pure, stream>>

\* Mutant of DeleteDocumentRemote: the document leaves the map whether or
\* not the remote delete succeeded.
DeleteDocumentRemoteAlwaysUnmaps(st, docID, r) ==
    IF r.ok
    THEN [st EXCEPT !.remote = r.remote]
    ELSE Returned([st EXCEPT !.remote = r.remote, !.docs = DeleteDoc(@, docID)],
                  "delete", docID, FALSE, TRUE)

\* DeleteDocument up to the return of deleteFromOpenAI: an error is
\* returned and leaves the map alone; nil goes on to the map.
DeleteDocumentRemote(st, docID, r) ==
    IF r.ok
    THEN [st EXCEPT !.remote = r.remote]
    ELSE Returned([st EXCEPT !.remote = r.remote], "delete", docID, FALSE, TRUE)

\* DeleteDocument: delete(fm.docs, docID), and return nil.
DeleteDocumentUnmap(st, docID) ==
    Returned([st EXCEPT !.docs = DeleteDoc(@, docID)], "delete", docID, TRUE, TRUE)

\* The caller's DeleteDocument, first step.
DeleteCall ==
    /\ store.op.kind = "none"
    /\ Len(store.log) < MaxOps
    /\ \E docID \in FileIDs :
         \E r \in deleteFromOpenAI(store.remote, docID) :
            LET s == DeleteDocumentRemote(Overlap(store), docID, r)
            IN  store' = IF r.ok
                         THEN [s EXCEPT !.op = [kind |-> "delete", id |-> docID]]
                         ELSE s
    /\ UNCHANGED <<dec, hist, retry, pure, stream>>

\* The caller's DeleteDocument, second step.
DeleteReturn ==
    /\ store.op.kind = "delete"
    /\ store' = [DeleteDocumentUnmap(Overlap(store), store.op.id)
                    EXCEPT !.op = [kind |-> "none", id |-> NoFile]]
    /\ UNCHANGED <<dec, hist, retry, pure, stream>>

\* Mutant of CloseStart: Close collects no document id.
CloseStartCollectsNothing ==
    /\ store.close.pc = "idle"
    /\ store' = [store EXCEPT !.close.pc = "deleting",
                              !.close.concurrent = store.op.kind # "none"]
    /\ UNCHANGED <<dec, hist, retry, pure, stream>>

\* Close: the ids of fm.docs are collected under the read lock.
CloseStart ==
    /\ store.close.pc = "idle"
    /\ store' = [store EXCEPT !.close.pc = "deleting",
                              !.close.docIDs = DOMAIN store.docs,
                              !.close.snapshot = DOMAIN store.docs,
                              !.close.concurrent = store.op.kind # "none"]
    /\ UNCHANGED <<dec, hist, retry, pure, stream>>

\* Close: fm.DeleteDocument(ctx, docID) for the next collected id, up to
\* the return of deleteFromOpenAI; an error is printed and the loop goes on.
CloseDelete ==
    /\ store.close.pc = "deleting"
    /\ store.close.current = NoFile
    /\ \E docID \in store.close.docIDs :
         \E r \in deleteFromOpenAI(store.remote, docID) :
            LET s == [DeleteDocumentRemote(store, docID, r)
                         EXCEPT !.close.docIDs = @ \ {docID},
                                !.close.attempted = @ \cup {docID}]
            IN  store' = IF r.ok
                         THEN [s EXCEPT !.close.current = docID]
                         ELSE [s EXCEPT !.close.failed = @ \cup {docID}]
    /\ UNCHANGED <<dec, hist, retry, pure, stream>>

\* Close: the rest of that fm.DeleteDocument.
CloseUnmap ==
    /\ store.close.pc = "deleting"
    /\ store.close.current # NoFile
    /\ store' = [DeleteDocumentUnmap(store, store.close.current)
                    EXCEPT !.close.current = NoFile]
    /\ UNCHANGED <<dec, hist, retry, pure, stream>>

\* Close: the loop is over, return nil.
CloseReturn ==
    /\ store.close.pc = "deleting"
    /\ store.close.current = NoFile
    /\ store.close.docIDs = {}
    /\ store' = [store EXCEPT !.close.pc = "done",
                              !.close.docsAtEnd = DOMAIN store.docs,
                              !.close.logAtEnd = Len(store.log)]
    /\ UNCHANGED <<dec, hist, retry, pure, stream>>

\* Open in goroutine t, up to the return of getFileInfoFromOpenAI: the
\* map is read under the read lock and a document found there is returned
\* at once; otherwise the lock is released and the remote API asked.
ConcurrentOpenLookup(t) ==
    /\ store.opens[t].pc = "idle"
    /\ store.opens[t].calls < MaxOpens
    /\ \E fileID \in OpenIDs :
         LET s == [store EXCEPT !.opens[t].calls = @ + 1]
         IN  IF fileID \in DOMAIN store.docs
             THEN store' = [s EXCEPT !.handed[fileID] = @ \cup {store.docs[fileID].addr},
                                     !.opens[t].ret =
                                         [id |-> fileID, ok |-> TRUE,
                                          addr |-> store.docs[fileID].addr,
                                          remote |-> FALSE]]
             ELSE \E ok \in getFileInfoFromOpenAI(store.remote, fileID) :
                     store' = IF ok
                              THEN [s EXCEPT !.opens[t].pc = "fetched",
                                             !.opens[t].id = fileID]
                              ELSE [s EXCEPT !.opens[t].ret =
                                         [id |-> fileID, ok |-> FALSE, addr |-> 0,
                                          remote |-> TRUE]]
    /\ UNCHANGED <<dec, hist, retry, pure, stream>>

\* Open in goroutine t: the new document is made, stored under the write
\* lock whatever the map holds by now, and returned.
ConcurrentOpenStore(t) ==
    /\ store.opens[t].pc = "fetched"
    /\ LET fileID == store.opens[t].id
           doc    == NewInMemoryDocument(store.nextAddr, fileID, "remote.txt")
       IN  store' = [store EXCEPT !.docs = PutDoc(@, doc),
                                  !.nextAddr = @ + 1,
                                  !.handed[fileID] = @ \cup {doc.addr},
                                  !.opens[t].pc = "idle",
                                  !.opens[t].id = NoFile,
                                  !.opens[t].ret =
                                      [id |-> fileID, ok |-> TRUE, addr |-> doc.addr,
                                       remote |-> TRUE]]
    /\ UNCHANGED <<dec, hist, retry, pure, stream>>

\* One of the four helpers is called.
RemoteCall ==
    /\ store.call.pc = "idle"
    /\ \E fn \in RemoteFns :
         store' = [store EXCEPT !.call.fn = fn, !.call.pc = "request"]
    /\ UNCHANGED <<dec, hist, retry, pure, stream>>

\* The request of this attempt is made and client.Do returns; with a done
\* context it returns the context's error.
RemoteAttempt ==
    /\ store.call.pc = "request"
    /\ \E resp \in (IF store.call.ctx = "live" THEN RemoteResponses ELSE {NoResponse}) :
         store' = [store EXCEPT !.call =
                      AfterRemoteResponse([@ EXCEPT !.requests = @ + 1], resp)]
    /\ UNCHANGED <<dec, hist, retry, pure, stream>>

\* case <-time.After(backoff): continue, that is attempt++ and the next
\* iteration.
RemoteTimerFires ==
    /\ store.call.pc = "backoff"
    /\ store.call.ctx = "live"
    /\ store' = [store EXCEPT !.call.pc = "request",
                              !.call.attempt = @ + 1,
                              !.call.waited = Append(@, store.call.backoff)]
    /\ UNCHANGED <<dec, hist, retry, pure, stream>>

\* case <-ctx.Done(): return ctx.Err().
RemoteSleepCancelled ==
    /\ store.call.pc = "backoff"
    /\ store.call.ctx # "live"
    /\ store' = [store EXCEPT !.call = ReturnFromCall(@, FALSE, "context", 0)]
    /\ UNCHANGED <<dec, hist, retry, pure, stream>>

\* The caller cancels the context of the helper, or its deadline expires.
RemoteContextDone ==
    /\ store.call.pc \in {"request", "backoff"}
    /\ store.call.ctx = "live"
    /\ \E why \in {"canceled", "deadline"} : store' = [store EXCEPT !.call.ctx = why]
    /\ UNCHANGED <<dec, hist, retry, pure, stream>>

(***************************************************************************)
(* Specifications.                                                         *)
(***************************************************************************)

\* One streaming call: parseSSEResponse on a response body.
InitDecoder ==
    /\ dec = InitDec
    /\ store = InitStore
    /\ hist = <<>>
    /\ retry = InitRetry
    /\ pure = InitPure
    /\ stream = InitStream

NextDecoder == DecodeLine \/ DecodeEnd

SpecDecoder == InitDecoder /\ [][NextDecoder]_vars

\* One non-streaming call: openaiGenerateWithRetry.
InitRetryLoop ==
    /\ dec = InitDec
    /\ store = InitStore
    /\ hist = <<>>
    /\ retry = InitRetry
    /\ pure = InitPure
    /\ stream = InitStream

NextRetry ==
    StartAttempt \/ AttemptReturns \/ TimerFires \/ SleepCancelled \/ ContextDone

SpecRetry == InitRetryLoop /\ [][NextRetry]_vars

\* The same call when the loop runs on, every openaiREST call returns and
\* every timer of a sleep fires unless the context wakes the select first.
\* Nothing makes the context done: the caller may never cancel.
SpecRetryFair ==
    /\ InitRetryLoop
    /\ [][NextRetry]_vars
    /\ WF_vars(StartAttempt)
    /\ WF_vars(AttemptReturns)
    /\ WF_vars(TimerFires)
    /\ WF_vars(SleepCancelled)

\* One streaming call: openaiStream.
InitStreamCall ==
    /\ dec = InitDec
    /\ store = InitStore
    /\ hist = <<>>
    /\ retry = InitRetry
    /\ pure = InitPure
    /\ stream = InitStream

NextStream ==
    StreamRequest \/ StreamResponds \/ StreamDecodeLine \/ StreamDecodeEnd

SpecStream == InitStreamCall /\ [][NextStream]_vars

\* Two calls running concurrently, each in its own goroutine: a
\* non-streaming call and a streaming call, their steps interleaved in
\* every order.  Each call works on the locals of its own invocation
\* (attempt, lastErr, response; scanner, accumulatedContent, toolCallsMap,
\* finalMessage) and on an http.Client value of its own; the file declares
\* no package-level variable.  The contexts of both calls stay live and
\* the streaming call reads at most MaxConcurrentLines lines.
ConcurrentDecodeLine ==
    /\ Len(hist) < MaxConcurrentLines
    /\ StreamDecodeLine

InitConcurrent ==
    /\ dec = InitDec
    /\ store = InitStore
    /\ hist = <<>>
    /\ pure = InitPure
    /\ retry = InitRetry
    /\ stream = InitStream

NextConcurrent ==
    \/ StartAttempt \/ AttemptReturns \/ TimerFires
    \/ StreamRequest \/ StreamResponds \/ ConcurrentDecodeLine \/ StreamDecodeEnd

SpecConcurrent == InitConcurrent /\ [][NextConcurrent]_vars

\* One streaming call whose context can become done.  A read of the body
\* that is pending when the context is done returns (net/http ends it with
\* the context's error), so the step is weakly fair.
NextStreamCancel ==
    \/ StreamRequest \/ StreamResponds \/ StreamDecodeLine \/ StreamDecodeEnd
    \/ StreamContextDone \/ StreamReadCancelled

SpecStreamCancel ==
    InitStreamCall /\ [][NextStreamCancel]_vars /\ WF_vars(StreamReadCancelled)

\* One call of the request executor on either path: openaiREST on an
\* exchange drawn at the start, or a streaming call.
InitExecutor ==
    /\ dec = InitDec
    /\ store = InitStore
    /\ hist = <<>>
    /\ retry = InitRetry
    /\ \/ /\ stream = InitStream
          /\ pure = InitPure
       \/ /\ stream = [InitStream EXCEPT !.pc = "none"]
          /\ \E outcome \in ExecutorOutcomes :
                pure = [fn |-> "openaiREST", in |-> outcome,
                        called |-> FALSE, out |-> "none"]

NextExecutor ==
    CallREST \/ StreamRequest \/ StreamResponds \/ StreamDecodeLine \/ StreamDecodeEnd

SpecExecutor == InitExecutor /\ [][NextExecutor]_vars

\* One call, non-streaming or streaming, on a message list drawn at the
\* start, followed up to the response of the request.
InitTranslate ==
    /\ dec = InitDec
    /\ store = InitStore
    /\ hist = <<>>
    /\ pure = InitPure
    /\ \E m \in MessageLists :
          \/ /\ retry = [InitRetry EXCEPT !.messages = m]
             /\ stream = [InitStream EXCEPT !.pc = "none"]
          \/ /\ retry = [InitRetry EXCEPT !.pc = "none"]
             /\ stream = [InitStream EXCEPT !.messages = m]

NextTranslate ==
    \/ StartAttempt \/ AttemptReturns \/ TimerFires \/ SleepCancelled \/ ContextDone
    \/ StreamRequest \/ StreamResponds

SpecTranslate == InitTranslate /\ [][NextTranslate]_vars

\* One call on the default message list, non-streaming (openaiGenerate) or
\* streaming (openaiStream), followed until it returns.
InitCalls ==
    /\ dec = InitDec
    /\ store = InitStore
    /\ hist = <<>>
    /\ pure = InitPure
    /\ \/ /\ retry = InitRetry
          /\ stream = [InitStream EXCEPT !.pc = "none"]
       \/ /\ retry = [InitRetry EXCEPT !.pc = "none"]
          /\ stream = InitStream

NextCalls ==
    \/ StartAttempt \/ AttemptReturns \/ TimerFires \/ SleepCancelled \/ ContextDone
    \/ StreamRequest \/ StreamResponds \/ StreamDecodeLine \/ StreamDecodeEnd

SpecCalls == InitCalls /\ [][NextCalls]_vars

\* The document store from its construction on.
InitStoreRun ==
    /\ dec = InitDec
    /\ store = InitStore
    /\ hist = <<>>
    /\ retry = InitRetry
    /\ pure = InitPure
    /\ stream = InitStream

NextStore ==
    \/ AddDocumentUpload \/ AddDocumentStore \/ OpenLookup \/ OpenStore
    \/ DeleteCall \/ DeleteReturn
    \/ CloseStart \/ CloseDelete \/ CloseUnmap \/ CloseReturn

SpecStore == InitStoreRun /\ [][NextStore]_vars

\* One call of a remote helper of the store.
NextRemote ==
    \/ RemoteCall \/ RemoteAttempt \/ RemoteTimerFires
    \/ RemoteSleepCancelled \/ RemoteContextDone

SpecRemote == InitStoreRun /\ [][NextRemote]_vars

\* Goroutines that call Open on the same store at the same time.
NextOpens == \E t \in Openers : ConcurrentOpenLookup(t) \/ ConcurrentOpenStore(t)

SpecOpens == InitStoreRun /\ [][NextOpens]_vars

\* The pure helpers, each on an input drawn at the start.
InitPureInputs ==
    /\ dec = InitDec
    /\ store = InitStore
    /\ hist = <<>>
    /\ retry = InitRetry
    /\ stream = InitStream
    /\ \/ \E e \in ErrorInputs :
            pure = [fn |-> "isRetryableError", in |-> e,
                    called |-> FALSE, out |-> "none"]
       \/ \E n \in 0..MaxAttemptArg, r \in 0..(RandDen - 1) :
            pure = [fn |-> "calculateBackoffDelay",
                    in |-> [attempt |-> n, rnd |-> r],
                    called |-> FALSE, out |-> "none"]
       \/ \E m \in Models, st \in BOOLEAN :
            pure = [fn |-> "OpenAIChatRequest",
                    in |-> [model |-> m, stream |-> st],
                    called |-> FALSE, out |-> "none"]
       \/ \E r \in ResourceMessages :
            pure = [fn |-> "openAIConvertMessages", in |-> r,
                    called |-> FALSE, out |-> "none"]

NextPure == Classify \/ Backoff \/ BuildPayload \/ Convert

SpecPure == InitPureInputs /\ [][NextPure]_vars

(***************************************************************************)
(* The input of a streaming call, read off the recorded lines.             *)
(***************************************************************************)

\* The deltas of the recorded lines, in arrival order: the first choice of
\* every chunk that has one.
RECURSIVE Deltas(_)
Deltas(h) ==
    IF h = <<>> THEN <<>>
    ELSE (IF InvokesCallback(Head(h).line)
          THEN <<Head(h).line.chunk.Choices[1]>>
          ELSE <<>>) \o Deltas(Tail(h))

\* The plain-text fragments of a sequence of deltas, concatenated in order.
RECURSIVE ConcatContent(_)
ConcatContent(ds) ==
    IF ds = <<>> THEN "" ELSE Head(ds).Content \o ConcatContent(Tail(ds))

\* The tool-call deltas of a sequence of deltas, in order.
RECURSIVE ToolDeltas(_)
ToolDeltas(ds) ==
    IF ds = <<>> THEN <<>> ELSE Head(ds).ToolCalls \o ToolDeltas(Tail(ds))

\* The argument fragments addressed to one slot, concatenated in order.
RECURSIVE ConcatArgs(_, _)
ConcatArgs(tds, slot) ==
    IF tds = <<>> THEN ""
    ELSE (IF Head(tds).Index = slot THEN Head(tds).Arguments ELSE "")
         \o ConcatArgs(Tail(tds), slot)

\* The slot indices that received a delta.
SlotsSeen(h) ==
    LET tds == ToolDeltas(Deltas(h)) IN {tds[i].Index : i \in 1..Len(tds)}

\* The recorded lines without those whose payload failed JSON decoding.
WithoutMalformed(h) == SelectSeq(h, LAMBDA e : e.line.kind # "malformed")

DecoderSucceeded == dec.pc = "done" /\ dec.result.err = NilError

LastLine == hist[Len(hist)]

(***************************************************************************)
(* Claims about the streaming decoder (SpecDecoder).                       *)
(***************************************************************************)

\* C1: when parseSSEResponse returns a message, its plain text is the
\* concatenation, in arrival order, of the content fragment of every delta
\* the decoder read (the stream up to the sentinel, the finishing chunk or
\* the end of the body).
C1_ContentIsConcatenation ==
    DecoderSucceeded =>
        dec.result.msg.Content = ConcatContent(Deltas(hist))

\* C1 witness: a stream of three content fragments closed by the sentinel
\* has been decoded.
C1_Witness ==
    /\ DecoderSucceeded
    /\ LastLine.line = DoneLine
    /\ Len(dec.result.msg.Content) = 3

C3_MalformedIsSkipped ==
    dec = RunDecoder(InitDec, WithoutMalformed(hist))

\* C3 witness: a malformed payload between two content chunks, decoded to
\* the end.
C3_Witness ==
    /\ DecoderSucceeded
    /\ Len(hist) >= 4
    /\ hist[1].line = ChunkLine(ChunkA)
    /\ hist[2].line = MalformedLine
    /\ hist[3].line = ChunkLine(ChunkB)
    /\ dec.result.msg.Content = "ab"

C5_CallbackErrorAborts ==
    \A i \in 1..Len(hist) :
        hist[i].cb # NilError =>
            /\ i = Len(hist)
            /\ dec.pc = "done"
            /\ dec.result = [msg |-> EmptyMessage, err |-> hist[i].cb]
            /\ Len(dec.cbLog) = Len(Deltas(hist))

\* C5 witness: the callback failed on its third call, after two fragments
\* had been accumulated.
C5_Witness ==
    /\ Len(hist) = 3
    /\ hist[3].cb = CallbackError(2)
    /\ Len(dec.cbLog) = 3
    /\ dec.acc.accumulatedContent # ""
    /\ dec.pc = "done"

(***************************************************************************)
(* Claims about the classifier, the backoff delay and the retry loop.      *)
(***************************************************************************)

RetryableCodes == {502, 503, 504, 429}

RetryableTexts == {TxtConnectionRefused, TxtTimeout, TxtNetwork, TxtTemporary}

HasRetryableText(text) == \E t \in RetryableTexts : Contains(text, t)

C7_OtherStatusIsPermanent ==
    (retry.err.kind = "status" /\ retry.err.StatusCode \notin RetryableCodes) =>
        /\ retry.pc = "done"
        /\ retry.result.err = WrapError(TxtNonRetryable, retry.err)

\* C8 (SpecRetry): whenever the latest attempt failed with an error that
\* isRetryableError rejects, the call has returned that error, wrapped as
\* non-retryable, with no message; every earlier attempt was followed by one
\* sleep and this one by none, and no attempt follows it.
C8_PermanentReturnsAtOnce ==
    (retry.err # NilError /\ ~isRetryableError(retry.err)) =>
        /\ retry.pc = "done"
        /\ retry.result = [msg |-> EmptyMessage,
                           err |-> WrapError(TxtNonRetryable, retry.err)]
        /\ retry.sleeps = retry.requests - 1

\* C8 witness: the third attempt failed with 401 after two retried failures.
C8_Witness ==
    /\ retry.pc = "done"
    /\ retry.requests = 3
    /\ retry.sleeps = 2
    /\ retry.err.kind = "status"
    /\ retry.err.StatusCode = 401

\* min(baseDelay * 2^n, maxDelay).
NominalDelay(n) ==
    IF baseDelay * 2^n < maxDelay THEN baseDelay * 2^n ELSE maxDelay

\* C9 (SpecPure): calculateBackoffDelay(n) lies within 10% of
\* min(baseDelay * 2^n, maxDelay): 1 s for n = 0, 4 s for n = 2, 30 s for
\* n = 10.
C9_BackoffWithinTenPercent ==
    (pure.fn = "calculateBackoffDelay" /\ pure.called) =>
        LET n == pure.in.attempt
            d == NominalDelay(n)
        IN  /\ 10 * pure.out >= 9 * d
            /\ 10 * pure.out <= 11 * d
            /\ n = 0  => d = 1000
            /\ n = 2  => d = 4000
            /\ n = 10 => d = 30000

\* C9 witness: attempt 10 gave the capped delay plus some jitter.
C9_Witness ==
    /\ pure.fn = "calculateBackoffDelay"
    /\ pure.called
    /\ pure.in.attempt = 10
    /\ pure.out > maxDelay

\* C10 (SpecRetry): from a backoff sleep in which the context has become
\* done, the only step is the return of the cancellation error, with no
\* message and no new request; and a call that has returned does nothing
\* more.
C10_CancellationWinsSleep ==
    [][/\ (retry.pc = "sleep" /\ retry.ctx # "live") =>
             /\ retry'.pc = "done"
             /\ retry'.result = [msg |-> EmptyMessage,
                                 err |-> WrapError(TxtCancelledDuringRetry,
                                                   CtxErr(retry.ctx))]
             /\ retry'.requests = retry.requests
       /\ retry.pc = "done" => retry' = retry]_vars

\* C10 witness: the call was cancelled during its second sleep and returned
\* the cancellation error after two requests.
C10_Witness ==
    /\ retry.pc = "done"
    /\ retry.ctx = "canceled"
    /\ retry.requests = 2
    /\ retry.sleeps = 2
    /\ retry.result.err = WrapError(TxtCancelledDuringRetry,
                                    TextError(TxtContextCanceled))

(***************************************************************************)
(* Claims C11..C20.                                                        *)
(***************************************************************************)

\* errors.Is(err, target): target is err or an error err wraps.
RECURSIVE Wraps(_, _)
Wraps(err, target) ==
    \/ err = target
    \/ err.kind = "wrap" /\ Wraps(err.inner, target)

\* C11: when the context is cancelled or its deadline expires while a
\* request attempt is in flight, the next step of the call is its return,
\* with no message and an error that wraps ctx.Err() and shows its text,
\* without blocking in a backoff sleep and without a further request.
C11_InflightCancellationReturns ==
    [][(retry.pc = "inflight" /\ retry.ctx # "live")
       => /\ retry'.pc = "done"
          /\ retry'.result.msg = EmptyMessage
          /\ Wraps(retry'.result.err, CtxErr(retry.ctx))
          /\ Contains(ErrorText(retry'.result.err), CtxErr(retry.ctx).text)
          /\ retry'.requests = retry.requests]_vars

\* A call returned by a cancellation that hit a request in flight: the
\* context's error came back from openaiREST itself.
C11_Witness ==
    /\ retry.pc = "done"
    /\ retry.ctx # "live"
    /\ retry.err = WrapError(TxtExecuteRequest, CtxErr(retry.ctx))
    /\ retry.result.err = WrapError(TxtNonRetryable, retry.err)
    /\ retry.requests = 2

\* "failed to generate after 6 attempts. Last error: <err>".
AfterSixAttempts(err) ==
    WrapError(Cat(TxtAfterAttempts, Cat(<<"6">>, TxtLastError)), err)

\* C12: a call that returned with a live context after a retryable failure
\* of its latest attempt (so every attempt before it failed retryably too)
\* has made exactly maxRetries + 1 = 6 requests and 5 backoff sleeps, and
\* its error wraps the error of that latest attempt behind the text
\* "failed to generate after 6 attempts. Last error: "; no call makes more
\* than 6 requests.
C12_ExhaustionAfterSixAttempts ==
    /\ retry.requests <= maxRetries + 1
    /\ (retry.pc = "done" /\ retry.ctx = "live" /\ isRetryableError(retry.err))
        => /\ retry.requests = 6
           /\ retry.sleeps = 5
           /\ retry.attempt = maxRetries
           /\ retry.result.msg = EmptyMessage
           /\ retry.result.err = AfterSixAttempts(retry.err)
           /\ Wraps(retry.result.err, retry.err)

\* Six retryable failures in a row, the last one a 503, with a live context.
C12_Witness ==
    /\ retry.pc = "done"
    /\ retry.ctx = "live"
    /\ retry.requests = 6
    /\ retry.err.kind = "status" /\ retry.err.StatusCode = 503
    /\ retry.result.err = AfterSixAttempts(retry.err)

\* The latest request of the call has returned and it succeeded.
LatestAttemptSucceeded ==
    /\ retry.requests > 0
    /\ retry.pc # "inflight"
    /\ retry.err = NilError

\* C13: once an attempt, the first or a later one, has succeeded, the call
\* has returned that attempt's response with a nil error: one sleep lies
\* between each two requests and none after the successful one, and no
\* request follows it.
C13_SuccessReturnsAtOnce ==
    LatestAttemptSucceeded
    => /\ retry.pc = "done"
       /\ retry.result.err = NilError
       /\ retry.result.msg = MessageOf(BodyCompletion)
       /\ retry.requests = retry.attempt + 1
       /\ retry.sleeps = retry.attempt

\* Success at the third attempt, after two retryable failures.
C13_Witness ==
    /\ LatestAttemptSucceeded
    /\ retry.pc = "done"
    /\ retry.requests = 3
    /\ retry.lastErr # NilError
    /\ retry.result.msg = MessageOf(BodyCompletion)

RECURSIVE Ascending(_)
Ascending(S) ==
    IF S = {} THEN <<>>
    ELSE LET least == CHOOSE x \in S : \A y \in S : x <= y
         IN  <<least>> \o Ascending(S \ {least})

\* The first delta addressed to a slot.
FirstDelta(tds, slot) ==
    tds[CHOOSE i \in 1..Len(tds) :
           /\ tds[i].Index = slot
           /\ \A j \in 1..(i - 1) : tds[j].Index # slot]

\* C15: the tool-call list of the final message has one entry for every
\* slot index that received a delta, in ascending order of the index,
\* whether or not the indices are 0..k-1: entry k is the call of the k-th
\* smallest index seen, with the id of its first delta and all its
\* argument fragments.
C15_NoSlotDropped ==
    DecoderSucceeded =>
        LET tds   == ToolDeltas(Deltas(hist))
            order == Ascending(SlotsSeen(hist))
            calls == dec.result.msg.ToolCalls
        IN  /\ Len(calls) = Len(order)
            /\ \A k \in 1..Len(order) :
                  /\ calls[k].ID = FirstDelta(tds, order[k]).ID
                  /\ calls[k].Args = ConcatArgs(tds, order[k])

\* The chunks decoded so far, in arrival order.
ChunksOf(h) ==
    LET lines == SelectSeq(h, LAMBDA e : e.line.kind = "chunk")
    IN  [i \in 1..Len(lines) |-> lines[i].line.chunk]

\* The value of a field in the first chunk that carries one, or the zero
\* value when no chunk does.
FirstCarried(cs, field, zero) ==
    IF \E i \in 1..Len(cs) : cs[i][field] # zero
    THEN cs[CHOOSE i \in 1..Len(cs) :
               /\ cs[i][field] # zero
               /\ \A j \in 1..(i - 1) : cs[j][field] = zero][field]
    ELSE zero

\* C16: the response id, the created timestamp and the model name the
\* decoder holds are each the value of the first chunk that carried that
\* field, at every point of the stream, and so is the metadata of the final
\* message: no later chunk changes a captured value.
C16_MetadataFromFirstCarrier ==
    LET cs == ChunksOf(hist)
    IN  /\ dec.acc.responseID      = FirstCarried(cs, "ID", "")
        /\ dec.acc.responseCreated = FirstCarried(cs, "Created", 0)
        /\ dec.acc.responseModel   = FirstCarried(cs, "Model", "")
        /\ DecoderSucceeded
           => /\ dec.result.msg.Response.ID      = FirstCarried(cs, "ID", "")
              /\ dec.result.msg.Response.Created = FirstCarried(cs, "Created", 0)
              /\ dec.result.msg.Response.Model   = FirstCarried(cs, "Model", "")

\* The latest line is the sentinel, or a chunk whose choice has a finish
\* reason and whose callback returned nil.
LastLineFinishes ==
    /\ hist # <<>>
    /\ \/ LastLine.line = DoneLine
       \/ /\ InvokesCallback(LastLine.line)
          /\ LastLine.line.chunk.Choices[1].FinishReason # ""
          /\ LastLine.cb = NilError

\* C17: after the sentinel or a chunk with a finish reason the decoder has
\* returned its final message; the message holds the text of every chunk
\* up to and including the finishing one, whose partial message was the
\* last to reach the callback; and a decoder that has returned scans no
\* further line, so nothing after it changes the message or calls the
\* callback.
C17_FinishIsTerminal ==
    /\ LastLineFinishes
       => /\ DecoderSucceeded
          /\ dec.result.msg.Content = ConcatContent(Deltas(hist))
          /\ Len(dec.cbLog) = Len(Deltas(hist))
    /\ dec.pc = "done"
       => /\ ~ENABLED DecodeLine
          /\ ~ENABLED DecodeEnd
          /\ \A line \in Lines \cup Ends, cbRet \in CallbackReturns :
                RunDecoder(dec, <<[line |-> line, cb |-> cbRet]>>) = dec

\* A content chunk followed by the finishing chunk, whose own text "c" is
\* the end of the final message.
C17_Witness ==
    /\ DecoderSucceeded
    /\ Len(hist) = 2
    /\ hist[1].line = ChunkLine(ChunkA)
    /\ LastLine.line = ChunkLine(ChunkFinish)
    /\ dec.result.msg.Content = "ac"
    /\ Len(dec.cbLog) = 2

\* The JSON key a generation parameter is sent under.
KeyOf(param) ==
    CASE param = "Temperature"      -> "temperature"
      [] param = "MaxTokens"        -> "max_tokens"
      [] param = "TopP"             -> "top_p"
      [] param = "FrequencyPenalty" -> "frequency_penalty"
      [] param = "PresencePenalty"  -> "presence_penalty"
      [] param = "StopSequences"    -> "stop"

\* C18: in the payload of either path a generation parameter is present
\* exactly when the caller set it (its pointer is non-nil), with the value
\* set, a value of zero included; an unset parameter is absent.
C18_ParamPresentIffSet ==
    (pure.fn = "OpenAIChatRequest" /\ pure.called)
    => \A param \in GenerationParams :
          /\ KeyOf(param) \in DOMAIN pure.out <=> pure.in.model[param].set
          /\ pure.in.model[param].set
             => pure.out[KeyOf(param)] = pure.in.model[param].v

\* The status error of a response: its code, its status line, its body.
StatusErrorOf(outcome) ==
    StatusError(outcome.code, StatusLine(outcome.code, outcome.reason), outcome.body)

IsFailedStatus(outcome) == outcome.kind = "http" /\ outcome.code # 200

\* C19: on both paths a response whose status is not 200 makes the call
\* return no message and a status error holding the numeric code, the
\* status line and the body as received, whatever the body would decode
\* to; on the streaming path the decoder has then scanned no line and the
\* callback has not been called.
C19_FailedStatusIsStatusError ==
    /\ (pure.fn = "openaiREST" /\ pure.called /\ IsFailedStatus(pure.in))
       => pure.out = [msg |-> EmptyMessage, err |-> StatusErrorOf(pure.in)]
    /\ IsFailedStatus(stream.outcome)
       => /\ stream.pc = "done"
          /\ stream.result = [msg |-> EmptyMessage, err |-> StatusErrorOf(stream.outcome)]
          /\ dec = InitDec
          /\ hist = <<>>
          /\ dec.cbLog = <<>>

\* openaiREST returned the status error of a 404 whose body is a well-formed
\* completion.
C19_Witness ==
    /\ pure.fn = "openaiREST"
    /\ pure.called
    /\ pure.in = HTTPResponse(404, TxtNotFound, BodyCompletion)
    /\ pure.out.err.StatusCode = 404
    /\ pure.out.err.ErrorMessage = BodyCompletion
    /\ pure.out.msg = EmptyMessage

\* "data:<MIME type>;base64,".
DataURLHead(mime) == Cat(TxtDataColon, Cat(mime, TxtBase64Comma))

IsFileReference(r) == HasPrefix(r.URI, TxtFileScheme)
IsImage(r)         == HasPrefix(r.MIMEType, TxtImageSlash)

\* The content is the body as text, not its base64 encoding.
IsRawBody(content, body) ==
    /\ body.kind # "nil" => content = StringContent(body.v)
    /\ body.kind = "bytes" => content # StringContent(EncodeToString(body.v))

\* C20 as stated: a file:// URI gives a file-reference part whatever the
\* MIME type; otherwise an image/* MIME type gives an inline base64 data
\* URL; otherwise the body is emitted as raw text, never base64-encoded.
C20_ResourcePriority ==
    (pure.fn = "openAIConvertMessages" /\ pure.called)
    => LET r == pure.in
       IN  IF IsFileReference(r)
           THEN /\ pure.out.kind = "parts"
                /\ pure.out.parts[1] = FilePart(TrimPrefix(r.URI, TxtFileScheme))
           ELSE IF IsImage(r)
           THEN /\ pure.out.kind = "string"
                /\ HasPrefix(pure.out.v, DataURLHead(r.MIMEType))
           ELSE IsRawBody(pure.out, r.Body)

\* C20 amended: the same priority order, and the image rule gives the data
\* URL "data:<MIME type>;base64,<base64 of the body>" for a []byte body
\* only; a body of another type (a string, nil) is passed through as it is.
C20_ResourcePriorityBytesOnly ==
    (pure.fn = "openAIConvertMessages" /\ pure.called)
    => LET r == pure.in
       IN  IF IsFileReference(r)
           THEN /\ pure.out.kind = "parts"
                /\ pure.out.parts[1] = FilePart(TrimPrefix(r.URI, TxtFileScheme))
           ELSE IF IsImage(r)
           THEN IF r.Body.kind = "bytes"
                THEN pure.out = StringContent(Cat(DataURLHead(r.MIMEType),
                                                  EncodeToString(r.Body.v)))
                ELSE pure.out = ContentOfBody(r.Body)
           ELSE IsRawBody(pure.out, r.Body)

\* A resource with a file:// URI and the MIME type image/png, converted to
\* a file reference.
C20_Witness ==
    /\ pure.fn = "openAIConvertMessages"
    /\ pure.called
    /\ pure.in.URI = URIFile
    /\ pure.in.MIMEType = MIMEPng
    /\ pure.in.Body.kind = "bytes"
    /\ pure.out.kind = "parts"
    /\ pure.out.parts[1].File.v.FileID = <<"f", "1">>

(***************************************************************************)
(* Claims C21..C30.                                                        *)
(***************************************************************************)

\* The trailing text of a file reference: the description when present,
\* else "File: <name>".
FileReferenceText(r) ==
    IF r.Description # <<>> THEN r.Description ELSE Cat(TxtFileLabel, r.Name)

\* C21 as stated: the content of a file-reference resource is exactly two
\* parts, the file part with the URI stripped of file:// and a text part
\* with the description when present, else "File: <name>".
C21_FileReferenceTwoParts ==
    (pure.fn = "openAIConvertMessages" /\ pure.called /\ IsFileReference(pure.in))
    => /\ pure.out.kind = "parts"
       /\ Len(pure.out.parts) = 2
       /\ pure.out.parts[1] = FilePart(TrimPrefix(pure.in.URI, TxtFileScheme))
       /\ pure.out.parts[2] = TextPart(FileReferenceText(pure.in))

\* C21 amended: the file part always comes first; the text part follows
\* only when the resource has a description or a name, and a resource with
\* neither gives the file part alone.
C21_FileReferenceParts ==
    (pure.fn = "openAIConvertMessages" /\ pure.called /\ IsFileReference(pure.in))
    => /\ pure.out.kind = "parts"
       /\ pure.out.parts[1] = FilePart(TrimPrefix(pure.in.URI, TxtFileScheme))
       /\ IF pure.in.Description = <<>> /\ pure.in.Name = <<>>
          THEN Len(pure.out.parts) = 1
          ELSE /\ Len(pure.out.parts) = 2
               /\ pure.out.parts[2] = TextPart(FileReferenceText(pure.in))

\* A file reference with a name and a description, whose text part is the
\* description.
C21_Witness ==
    /\ pure.fn = "openAIConvertMessages"
    /\ pure.called
    /\ pure.in.URI = URIFile
    /\ pure.in.Name = NameDoc
    /\ pure.in.Description = DescDoc
    /\ Len(pure.out.parts) = 2
    /\ pure.out.parts[2].Text = DescDoc

HasUnrecognized(messages) ==
    \E i \in 1..Len(messages) : messages[i].type \notin RecognizedTypes

\* What C22 says of one call, given its state.
TranslationIsAllOrNothing(call) ==
    /\ HasUnrecognized(call.messages)
       => /\ call.pc \in {"none", "start", "panic"}
          /\ call.requests = 0
          /\ call.sent = <<>>
          /\ call.result = [msg |-> EmptyMessage, err |-> NilError]
    /\ call.pc = "panic" => HasUnrecognized(call.messages)
    /\ call.requests > 0
       => /\ Len(call.sent) = Len(call.messages)
          /\ \A i \in 1..Len(call.messages) :
                /\ call.sent[i].Role = call.messages[i].Role
                /\ call.messages[i].type # "ResourceMessage"
                   => call.sent[i].Content = StringContent(call.messages[i].Content)

\* C22: a call, non-streaming or streaming, whose messages hold one of an
\* unrecognized variant at any position panics in the conversion: it makes
\* no request, sends no converted message and returns nothing.  A call that
\* made a request sent one converted message per input message, in the
\* input's order, each with the role (and text) of its input message.
C22_UnknownVariantAborts ==
    /\ TranslationIsAllOrNothing(retry)
    /\ TranslationIsAllOrNothing(stream)

\* A streaming call panicked on a pointer message that came second.
C22_Witness ==
    /\ stream.pc = "panic"
    /\ stream.messages = <<UserMessage, PointerMessage>>
    /\ stream.requests = 0

(***************************************************************************)
(* C23.  A call that has returned, non-streaming or streaming, returned     *)
(* either the assembled message with the nil error or an error with the    *)
(* zero message: the text accumulated before a failure never comes back    *)
(* with the error.                                                         *)
(***************************************************************************)
ReturnedMessageOrError(result, assembled) ==
    \/ result.err = NilError /\ result.msg = assembled
    \/ result.err # NilError /\ result.msg = EmptyMessage

C23_MessageOrError ==
    /\ retry.pc = "done" => ReturnedMessageOrError(retry.result, MessageOf(BodyCompletion))
    /\ stream.pc = "done" =>
          /\ ReturnedMessageOrError(stream.result, FinalMessage(dec.acc))
          /\ stream.result.err = NilError =>
                stream.result.msg.Content = ConcatContent(Deltas(hist))

\* A streaming call failed after text had been accumulated.
C23_Witness ==
    /\ stream.pc = "done"
    /\ stream.result.err # NilError
    /\ dec.acc.accumulatedContent # ""
    /\ stream.result.msg = EmptyMessage

(***************************************************************************)
(* C24.  The final message of a streaming call has, as its reasoning text, *)
(* the reasoning spans of all deltas concatenated in arrival order, and    *)
(* as its plain text the deltas' texts without those spans.                *)
(***************************************************************************)
RECURSIVE ConcatThink(_)
ConcatThink(ds) ==
    IF ds = <<>> THEN ""
    ELSE ExtractThinkTags(Head(ds).Content).thinkPart \o ConcatThink(Tail(ds))

RECURSIVE ConcatPlain(_)
ConcatPlain(ds) ==
    IF ds = <<>> THEN ""
    ELSE ExtractThinkTags(Head(ds).Content).content \o ConcatPlain(Tail(ds))

C24_ReasoningSplit ==
    DecoderSucceeded =>
        /\ dec.result.msg.Think = ConcatThink(Deltas(hist))
        /\ dec.result.msg.Content = ConcatPlain(Deltas(hist))

(***************************************************************************)
(* C25.  Tool calls and the progress callback.                             *)
(***************************************************************************)

\* The slots the conversion loop visits among the slots seen: those below
\* the number of distinct slots, in ascending order.
VisitedSlots(slots) == Ascending({s \in slots : s < Cardinality(slots)})

\* C25 as stated: every message given to the progress callback has an
\* empty tool-call list; the tool calls come with the final message only.
C25_ToolCallsWithheld ==
    \A i \in 1..Len(dec.cbLog) : dec.cbLog[i].ToolCalls = <<>>

\* C25 as amended: the message of the i-th callback carries the tool calls
\* accumulated from the first i deltas, one entry per visited slot with the
\* id of the slot's first delta and the arguments received so far; the
\* final message carries the list of the last state.
C25_ProgressCarriesToolCalls ==
    /\ \A i \in 1..Len(dec.cbLog) :
          LET tds   == ToolDeltas(SubSeq(Deltas(hist), 1, i))
              order == VisitedSlots({tds[k].Index : k \in 1..Len(tds)})
              calls == dec.cbLog[i].ToolCalls
          IN  /\ Len(calls) = Len(order)
              /\ \A k \in 1..Len(order) :
                    /\ calls[k].ID = FirstDelta(tds, order[k]).ID
                    /\ calls[k].Args = ConcatArgs(tds, order[k])
    /\ DecoderSucceeded /\ Len(dec.cbLog) > 0 =>
          dec.result.msg.ToolCalls = dec.cbLog[Len(dec.cbLog)].ToolCalls

\* C25 witness: the callback of a content chunk got the tool call of an
\* earlier chunk, before the stream ended.
C25_Witness ==
    /\ dec.pc = "scan"
    /\ Len(hist) = 2
    /\ hist[1].line = ChunkLine(ChunkTool0)
    /\ hist[2].line = ChunkLine(ChunkA)
    /\ Len(dec.cbLog[2].ToolCalls) = 1
    /\ dec.cbLog[2].ToolCalls[1].Args = "x"

(***************************************************************************)
(* C26.  The role of the progress messages and of the final message.       *)
(***************************************************************************)

\* The role of the last delta that carries one, or "" when none does.
LastRole(ds) ==
    IF \E i \in 1..Len(ds) : ds[i].Role # ""
    THEN ds[CHOOSE i \in 1..Len(ds) :
               /\ ds[i].Role # ""
               /\ \A j \in (i + 1)..Len(ds) : ds[j].Role = ""].Role
    ELSE ""

\* The role of the first delta that carries one, or "" when none does.
FirstRole(ds) == FirstCarried(ds, "Role", "")

CancelledWhileBlocked ==
    stream.pc = "decoding" /\ dec.pc = "scan" /\ stream.ctx # "live"

ReturnedError == stream.pc = "done" /\ stream.result.err # NilError

C27_CancelledReadReturns ==
    /\ CancelledWhileBlocked ~> ReturnedError
    /\ [][CancelledWhileBlocked => ReturnedError']_vars

\* C27 witness: the call returned the context's error from a read, with no
\* sentinel and no end of the body among the lines read.
C27_Witness ==
    /\ stream.pc = "done"
    /\ stream.outcome.kind = "http"
    /\ stream.ctx = "canceled"
    /\ dec.acc.accumulatedContent # ""
    /\ stream.result.err = WrapError(TxtReadingStream, TextError(TxtContextCanceled))
    /\ Len(hist) >= 2
    /\ \A i \in 1..Len(hist) : hist[i].line.kind \notin {"sentinel", "eof", "ioerr"}

(***************************************************************************)
(* C28.  Concurrent calls do not interfere: in every interleaving, a step  *)
(* that changes the state of the non-streaming call (attempt counter, last *)
(* error, result) leaves the streaming call as it was, a step that changes *)
(* the state of the streaming call (accumulator, callback log, result)     *)
(* leaves the non-streaming call as it was, and each call holds what it    *)
(* holds when it runs alone on the same responses.                         *)
(***************************************************************************)
StreamingCall == <<stream, dec, hist>>

\* What holds of a non-streaming call running alone: the attempt counter
\* counts the requests made, the last error is the error of the latest
\* failed attempt, and a returned error has the zero message.
RetryAsAlone ==
    /\ retry.requests = retry.attempt + (IF retry.pc = "start" THEN 0 ELSE 1)
    /\ retry.sleeps \in {retry.attempt, retry.attempt + 1}
    /\ retry.err # NilError => retry.lastErr = retry.err
    /\ retry.pc = "done" =>
          ReturnedMessageOrError(retry.result, MessageOf(BodyCompletion))

\* What holds of a streaming call running alone: the decoder is where the
\* lines it read bring it from the start, and a returned call returned the
\* decoder's result.
StreamAsAlone ==
    /\ dec = RunDecoder(InitDec, hist)
    /\ stream.pc = "done" /\ stream.outcome.kind = "http" /\ stream.outcome.code = 200 =>
          stream.result = dec.result

RECURSIVE ExpectedIDs(_)
ExpectedIDs(log) ==
    IF log = <<>> THEN {}
    ELSE LET e    == log[Len(log)]
             rest == ExpectedIDs(SubSeq(log, 1, Len(log) - 1))
         IN  IF e.ok /\ e.op \in {"add", "open"} THEN rest \cup {e.id}
             ELSE IF e.ok /\ e.op = "delete" THEN rest \ {e.id}
             ELSE rest

\* C29: ListDocuments returns exactly the documents stored by a successful
\* AddDocument or Open and not since removed by a successful
\* DeleteDocument, each once and each under the id the remote API gave it.
C29_ListIsAddedMinusDeleted ==
    /\ {d.ID : d \in ListDocuments(store)} = ExpectedIDs(store.log)
    /\ Cardinality(ListDocuments(store)) = Cardinality(ExpectedIDs(store.log))
    /\ \A id \in DOMAIN store.docs : store.docs[id].ID = id

\* C29 witness: an uploaded document is still listed after a DeleteDocument
\* of it that failed, next to a document that was opened.
C29_Witness ==
    /\ Len(store.log) = 3
    /\ store.log[1] = [op |-> "add", id |-> 1, ok |-> TRUE, remote |-> TRUE]
    /\ store.log[2] = [op |-> "delete", id |-> 1, ok |-> FALSE, remote |-> TRUE]
    /\ store.log[3] = [op |-> "open", id |-> 0, ok |-> TRUE, remote |-> TRUE]
    /\ {d.ID : d \in ListDocuments(store)} = {0, 1}

\* The operations that had returned when Close collected the ids, when no
\* operation of the caller overlapped Close: all but the deletes of Close.
LogBeforeClose ==
    SubSeq(store.log, 1, store.close.logAtEnd - Cardinality(store.close.attempted))

\* C30: when Close has returned, it has attempted a remote delete for every
\* document that was in the map when it started; if no other operation
\* overlapped it, the documents left in the map are those whose remote
\* delete failed, so that with all deletes successful the map was empty when
\* Close returned; and then every later DeleteDocument of one of those ids
\* called the remote API and returned an error.
C30_CloseDeletesAll ==
    store.close.pc = "done" =>
        /\ store.close.attempted = store.close.snapshot
        /\ ~store.close.concurrent =>
              /\ store.close.snapshot = ExpectedIDs(LogBeforeClose)
              /\ store.close.docsAtEnd = store.close.failed
              /\ store.close.failed = {} =>
                    /\ store.close.docsAtEnd = {}
                    /\ \A i \in (store.close.logAtEnd + 1)..Len(store.log) :
                          LET e == store.log[i]
                          IN  e.op = "delete" /\ e.id \in store.close.snapshot =>
                                 e.remote /\ ~e.ok

\* C30 witness: Close deleted the one uploaded document, alone, and the
\* DeleteDocument of that id made afterwards failed at the remote API.
C30_Witness ==
    /\ store.close.pc = "done"
    /\ ~store.close.concurrent
    /\ store.close.snapshot = {1}
    /\ store.close.failed = {}
    /\ store.docs = <<>>
    /\ Len(store.log) = 3
    /\ store.log[3] = [op |-> "delete", id |-> 1, ok |-> FALSE, remote |-> TRUE]

(***************************************************************************)
(* C31.  The accumulator holds one entry for every slot index that got a   *)
(* delta, and the id, the type and the name of the entry are those of the  *)
(* first delta of the slot, whatever later deltas carry.  The lines read   *)
(* only grow, so an entry, once made, is never removed.                    *)
(***************************************************************************)
C31_SlotIdentityIsFirstDelta ==
    LET tds == ToolDeltas(Deltas(hist))
        m   == dec.acc.toolCallsMap
    IN  /\ DOMAIN m = SlotsSeen(hist)
        /\ \A slot \in DOMAIN m :
              /\ m[slot].ID   = FirstDelta(tds, slot).ID
              /\ m[slot].Type = FirstDelta(tds, slot).Type
              /\ m[slot].Name = FirstDelta(tds, slot).Name

\* C31 witness: slot 0 got a second delta with another id and no type or
\* name, and kept the id, the type and the name of its first delta.
C31_Witness ==
    /\ Len(hist) = 2
    /\ hist[1].line = ChunkLine(ChunkTool0)
    /\ hist[2].line = ChunkLine(ChunkTool01)
    /\ dec.acc.toolCallsMap[0].ID = "c0"
    /\ dec.acc.toolCallsMap[0].Type = "function"
    /\ dec.acc.toolCallsMap[0].Name = "f"
    /\ dec.acc.toolCallsMap[0].Args = "xy"

(***************************************************************************)
(* C32.  A read of the body that fails while the loop is still scanning    *)
(* (no finish reason, no sentinel yet) ends the call with the wrapped read *)
(* error and the zero message, whatever was accumulated; the callbacks     *)
(* made for the chunks before it are the ones that were made.              *)
(***************************************************************************)
C32_ReadErrorFails ==
    (hist # <<>> /\ LastLine.line = ReadFailure) =>
        /\ dec.pc = "done"
        /\ dec.result.msg = EmptyMessage
        /\ dec.result.err = WrapError(TxtReadingStream, TextError(TxtUnexpectedEOF))
        /\ ErrorText(dec.result.err) = Cat(TxtReadingStream, TxtUnexpectedEOF)
        /\ Len(dec.cbLog) = Len(Deltas(hist))

\* C32 witness: the read failed after two fragments had been accumulated
\* and given to the callback.
C32_Witness ==
    /\ Len(hist) = 3
    /\ hist[1].line = ChunkLine(ChunkA)
    /\ hist[2].line = ChunkLine(ChunkB)
    /\ hist[3].line = ReadFailure
    /\ dec.acc.accumulatedContent = "ab"
    /\ Len(dec.cbLog) = 2
    /\ dec.result.msg = EmptyMessage
    /\ dec.result.err # NilError

\* C33: a blank line, a line without the data prefix and a data line whose
\* payload fails JSON decoding each leave the decoder as it was: the
\* accumulated text, the tool-call slots, the role, the metadata, the
\* callbacks made so far and the fact that the loop goes on.
C33_SkippedLinesChangeNothing ==
    [][(/\ Len(hist') = Len(hist) + 1
        /\ hist'[Len(hist')].line \in {BlankLine, CommentLine, MalformedLine})
       => (/\ dec'.acc = dec.acc
           /\ dec'.cbLog = dec.cbLog
           /\ dec'.pc = "scan"
           /\ dec'.result = dec.result)]_vars

\* C33 witness: after a tool-call chunk, one line of each skipped kind was
\* read; the accumulator still holds the chunk's slot, role and metadata and
\* one callback was made.
C33_Witness ==
    /\ Len(hist) = 4
    /\ hist[1].line = ChunkLine(ChunkTool0)
    /\ hist[2].line = BlankLine
    /\ hist[3].line = CommentLine
    /\ hist[4].line = MalformedLine
    /\ dec.pc = "scan"
    /\ DOMAIN dec.acc.toolCallsMap = {0}
    /\ dec.acc.Role = "user"
    /\ dec.acc.responseModel = "m3"
    /\ Len(dec.cbLog) = 1

(***************************************************************************)
(* C34.  Which chunks reach the progress callback.                         *)
(***************************************************************************)

\* The deltas that brought new text.
TextDeltas(ds) == SelectSeq(ds, LAMBDA d : d.Content # "")

\* C34 as stated: the callbacks correspond one-to-one, in arrival order, to
\* the chunks that produced new text; a chunk without new text triggers
\* none.
C34_CallbackOnlyForNewText ==
    LET tds == TextDeltas(Deltas(hist))
    IN  /\ Len(dec.cbLog) = Len(tds)
        /\ \A i \in 1..Len(dec.cbLog) :
              dec.cbLog[i].Content = ConcatContent(SubSeq(tds, 1, i))

\* C34 as amended: reading a chunk with at least one choice appends exactly
\* one callback, made with the partial message of the accumulator as that
\* chunk left it, whether or not the chunk brought text; reading anything
\* else appends none; earlier callbacks are never reordered or dropped.
C34_CallbackPerChunkWithChoice ==
    [][Len(hist') = Len(hist) + 1 =>
         LET line == hist'[Len(hist')].line
             n    == Len(dec.cbLog)
         IN  IF InvokesCallback(line)
             THEN /\ Len(dec'.cbLog) = n + 1
                  /\ SubSeq(dec'.cbLog, 1, n) = dec.cbLog
                  /\ dec'.cbLog[n + 1] = PartialMessage(dec'.acc)
             ELSE dec'.cbLog = dec.cbLog]_vars

\* C34 witness: a chunk with tool-call deltas only and a chunk with a role
\* and text each got a callback, in that order; the chunk without choices
\* between them got none.
C34_Witness ==
    /\ Len(hist) = 3
    /\ hist[1].line = ChunkLine(ChunkTool0)
    /\ hist[2].line = ChunkLine(ChunkUsage)
    /\ hist[3].line = ChunkLine(ChunkA)
    /\ Len(dec.cbLog) = 2
    /\ dec.cbLog[1].Content = ""
    /\ Len(dec.cbLog[1].ToolCalls) = 1
    /\ dec.cbLog[2].Content = "a"

(***************************************************************************)
(* C35.  A body that ends without sentinel or finish reason.               *)
(***************************************************************************)

\* C35: when the body ends cleanly (before any sentinel or finish reason,
\* since either would have ended the loop), the call returns without error
\* the message assembled from every chunk read: the text of all deltas, and
\* in every field the message the same lines closed by the sentinel give.
C35_CleanEndSucceeds ==
    (hist # <<>> /\ LastLine.line = EndOfBody) =>
        LET before == SubSeq(hist, 1, Len(hist) - 1)
        IN  /\ \A i \in 1..Len(before) :
                  /\ before[i].line # DoneLine
                  /\ InvokesCallback(before[i].line)
                        => before[i].line.chunk.Choices[1].FinishReason = ""
            /\ dec.pc = "done"
            /\ dec.result.err = NilError
            /\ dec.result.msg = FinalMessage(dec.acc)
            /\ dec.result.msg.Content = ConcatContent(Deltas(hist))
            /\ dec.result =
                  RunDecoder(InitDec,
                             Append(before, [line |-> DoneLine, cb |-> NilError])).result

\* C35 witness: two content chunks and a tool-call chunk, then the body
\* ended; the message holds their text and the tool call.
C35_Witness ==
    /\ Len(hist) = 4
    /\ hist[1].line = ChunkLine(ChunkA)
    /\ hist[2].line = ChunkLine(ChunkTool0)
    /\ hist[3].line = ChunkLine(ChunkB)
    /\ hist[4].line = EndOfBody
    /\ dec.result.err = NilError
    /\ dec.result.msg.Content = "ab"
    /\ Len(dec.result.msg.ToolCalls) = 1

(***************************************************************************)
(* C36, C37.  Bounds and termination of the retry loop (SpecRetry).        *)
(***************************************************************************)

\* The delays calculateBackoffDelay can give for an attempt index.
BackoffDelays(attempt) ==
    {calculateBackoffDelay(attempt, rnd) : rnd \in 0..(RandDen - 1)}

\* C36: one call makes at most maxRetries + 1 = 6 requests and enters at
\* most 5 backoff sleeps; a sleep is entered only by the step in which an
\* attempt with index 0..4 returns a retryable error, and its delay is the
\* one computed from that attempt's index; the next request, the one of
\* attempt k + 1, is made only after the sleep that followed attempt k.
C36_AttemptsAndSleepsBounded ==
    /\ [](/\ retry.requests <= maxRetries + 1
          /\ retry.sleeps <= maxRetries
          /\ retry.sleeps <= retry.requests
          /\ retry.pc = "sleep" =>
                /\ retry.attempt \in 0..(maxRetries - 1)
                /\ retry.requests = retry.attempt + 1
                /\ retry.sleeps = retry.attempt + 1
                /\ isRetryableError(retry.err)
                /\ retry.delay \in BackoffDelays(retry.attempt))
    /\ [][/\ retry'.sleeps # retry.sleeps =>
                /\ retry.pc = "inflight"
                /\ retry'.sleeps = retry.sleeps + 1
                /\ retry'.attempt = retry.attempt
                /\ retry.attempt \in 0..(maxRetries - 1)
                /\ isRetryableError(retry'.err)
                /\ retry'.delay \in BackoffDelays(retry.attempt)
          /\ retry'.requests # retry.requests =>
                /\ retry'.requests = retry.requests + 1
                /\ retry.requests = retry.attempt
                /\ retry.sleeps = retry.attempt
                /\ retry.attempt > 0 => retry.delay \in BackoffDelays(retry.attempt - 1)
         ]_vars

\* C36 witness: the call is in its fifth sleep, after the retryable failure
\* of attempt 4, with the delay of attempt index 4 (16 s plus jitter).
C36_Witness ==
    /\ retry.pc = "sleep"
    /\ retry.attempt = 4
    /\ retry.requests = 5
    /\ retry.sleeps = 5
    /\ retry.delay >= 16000
    /\ retry.delay <= 17600

\* C37 (SpecRetryFair): when every request returns and every timer fires,
\* the call returns, whatever the server answers and whenever the context
\* becomes done, if ever.
C37_CallReturns == <>(retry.pc = "done")

\* C37 witness: the call returned the cancellation error from its third
\* sleep, in which the deadline expired.
C37_Witness ==
    /\ retry.pc = "done"
    /\ retry.ctx = "deadline"
    /\ retry.requests = 3
    /\ retry.sleeps = 3
    /\ retry.result.err = WrapError(TxtCancelledDuringRetry,
                                    TextError(TxtDeadlineExceeded))

(***************************************************************************)
(* C38.  An operation of the store that returns an error.                  *)
(***************************************************************************)

\* C38: the step in which an Open, an AddDocument or a DeleteDocument
\* returns an error leaves fm.docs as it was, and the operation wrote
\* nothing to it before: a document whose remote delete failed is still
\* listed and a failed upload or lookup added no entry.
C38_ErrorLeavesMapUnchanged ==
    [][(/\ Len(store'.log) = Len(store.log) + 1
        /\ ~store'.log[Len(store'.log)].ok)
       => LET e == store'.log[Len(store'.log)]
          IN  /\ store'.docs = store.docs
              /\ ListDocuments(store') = ListDocuments(store)
              /\ store.op.kind = "none" \/ e.op = "delete"
              /\ (e.op = "delete" /\ e.id \in DOMAIN store.docs)
                    => e.id \in DOMAIN store'.docs
              /\ (e.op \in {"add", "open"} /\ e.id \notin DOMAIN store.docs)
                    => e.id \notin DOMAIN store'.docs]_vars

\* C38 witness: after an upload, a DeleteDocument of the uploaded document
\* and a second upload both failed; the first document is the only one
\* listed.
C38_Witness ==
    /\ Len(store.log) = 3
    /\ store.log[1] = [op |-> "add", id |-> 1, ok |-> TRUE, remote |-> TRUE]
    /\ store.log[2] = [op |-> "delete", id |-> 1, ok |-> FALSE, remote |-> TRUE]
    /\ store.log[3] = [op |-> "add", id |-> 2, ok |-> FALSE, remote |-> TRUE]
    /\ DOMAIN store.docs = {1}

(***************************************************************************)
(* C39.  The retry loop of the store's remote helpers (SpecRemote).        *)
(***************************************************************************)

IsServerError(resp) == resp.kind = "http" /\ resp.code >= 500 /\ resp.code < 600

\* The latest response of the helper.
LastResponse == store.call.responses[Len(store.call.responses)]

\* The part of C39 about attempts and waits: at most 3 requests; the helper
\* waits only after a 5xx answer to attempt 1 or 2, for attempt x 1 s; the
\* next request is made only after that wait has ended with a live context;
\* a context done during the wait ends the call at once with the context's
\* error; after a transport error, a status that is neither 200 nor 5xx, or
\* a 5xx answer to the third attempt the call has returned an error.
RemoteAttemptsAndWaits ==
    /\ [](LET c == store.call
          IN  /\ c.requests <= storeMaxRetries
              /\ c.requests = Len(c.responses)
              /\ c.pc = "backoff" =>
                    /\ c.attempt \in {1, 2}
                    /\ c.requests = c.attempt
                    /\ IsServerError(LastResponse)
                    /\ c.backoff = c.attempt * 1000
              /\ \A i \in 1..Len(c.waited) :
                    /\ c.waited[i] = i * 1000
                    /\ IsServerError(c.responses[i])
              /\ c.requests > 0 => Len(c.waited) \in {c.requests - 1, c.requests}
              /\ (c.requests > 0 /\ c.pc # "backoff" /\ c.pc # "request") =>
                    /\ c.pc = "done"
                    /\ ~IsServerError(LastResponse) \/ c.requests = storeMaxRetries
                          \/ c.result.err = "context"
              /\ (c.pc = "done" /\ c.result.err # "context"
                    /\ (LastResponse.kind = "transport" \/ LastResponse.code # 200)) =>
                    /\ ~c.result.ok
                    /\ c.result.err = (IF LastResponse.kind = "transport"
                                       THEN "transport" ELSE "status")
                    /\ c.result.code = LastResponse.code)
    /\ [][LET c == store.call
              d == store'.call
          IN  /\ d.requests # c.requests =>
                    /\ d.requests = c.requests + 1
                    /\ c.pc = "request"
                    /\ c.requests = Len(c.waited)
                    /\ c.requests = c.attempt - 1
              /\ (c.pc = "backoff" /\ c.ctx # "live") =>
                    /\ d.pc = "done"
                    /\ d.result = [ok |-> FALSE, err |-> "context", code |-> 0]
                    /\ d.requests = c.requests
              /\ c.pc = "done" => d = c]_vars

\* C39 as stated: the attempts and waits are as above, and a status 200
\* returns success in every helper.
C39_RemoteRetryOKSucceeds ==
    /\ RemoteAttemptsAndWaits
    /\ [](store.call.pc = "done" /\ store.call.result.err # "context"
             /\ LastResponse.kind = "http" /\ LastResponse.code = 200
          => store.call.result.ok)

\* C39 as amended: the attempts and waits are as above; a status 200
\* returns success from deleteFromOpenAI, and from the other three helpers
\* when the body decodes, otherwise the decoding error, with no further
\* attempt.
C39_RemoteRetry ==
    /\ RemoteAttemptsAndWaits
    /\ [](store.call.pc = "done" /\ store.call.result.err # "context"
             /\ LastResponse.kind = "http" /\ LastResponse.code = 200
          => IF store.call.fn = "delete" \/ LastResponse.decodes
             THEN store.call.result = [ok |-> TRUE, err |-> "nil", code |-> 0]
             ELSE store.call.result = [ok |-> FALSE, err |-> "decode", code |-> 0])

\* C39 witness: getFileInfoFromOpenAI got 503 twice, waited 1 s and 2 s,
\* and returned the status error of the 500 that answered its third
\* request.
C39_Witness ==
    /\ store.call.fn = "info"
    /\ store.call.pc = "done"
    /\ store.call.requests = 3
    /\ store.call.waited = <<1000, 2000>>
    /\ store.call.responses[1].code = 503
    /\ store.call.responses[3].code = 500
    /\ store.call.result = [ok |-> FALSE, err |-> "status", code |-> 500]

(***************************************************************************)
(* C40.  Concurrent calls of Open (SpecOpens).                             *)
(***************************************************************************)

\* No call of Open is under way.
OpensCompleted == \A t \in Openers : store.opens[t].pc = "idle"

\* C40 as stated: an Open that finds the id in the map returns the
\* document of the map without asking the remote API; and once all
\* concurrent calls have completed, every document they returned for an id
\* is the one object the map holds for it.
C40_OneDocumentPerID ==
    /\ [][\A t \in Openers, id \in DOMAIN store.docs :
            (/\ store.opens[t].pc = "idle"
             /\ store'.opens[t].calls = store.opens[t].calls + 1
             /\ store'.opens[t].ret.id = id)
            => /\ store'.opens[t].pc = "idle"
               /\ store'.opens[t].ret =
                     [id |-> id, ok |-> TRUE, addr |-> store.docs[id].addr,
                      remote |-> FALSE]
               /\ store'.docs = store.docs]_vars
    /\ [](OpensCompleted =>
            /\ \A id \in OpenIDs :
                  store.handed[id] # {} =>
                     /\ id \in DOMAIN store.docs
                     /\ store.handed[id] = {store.docs[id].addr}
            /\ \A t \in Openers :
                  store.opens[t].ret.ok =>
                     store.opens[t].ret.addr = store.docs[store.opens[t].ret.id].addr)

====
